---------------------------- MODULE Spec2Model ----------------------------
(***************************************************************************)
(* A model of the stateful scans of the technical-indicator library:       *)
(*   chart_trends::break_down_trends   (with get_trend_line and            *)
(*                                      goodness_of_fit),                  *)
(*   chart_trends::peaks / valleys,                                        *)
(*   trend_indicators::bulk::parabolic_time_price_system.                  *)
(*                                                                         *)
(* f64 values are modelled as exact rationals <<numerator, denominator>>   *)
(* in lowest terms with a positive denominator.  A division by zero gives  *)
(* NaN, every comparison with NaN is false.  f64::MAX is the value FMax,   *)
(* larger than every rational a run can produce.  RMSE is carried as its   *)
(* square (sqrt is monotone on the non-negative reals), so                 *)
(* `rmse > m * previous_rmse` is decided as rmse^2 > m^2 * previous^2 for  *)
(* the positive multipliers m of the configurations below.  Prices are     *)
(* whole numbers, NaN is not among them.                                   *)
(*                                                                         *)
(* Each function is a state machine: one variable holds the locals of the  *)
(* call (a record whose fields carry the names of the source), and one     *)
(* action is one pass through the loop body along one of its branches.     *)
(***************************************************************************)
EXTENDS Integers, Naturals, Sequences, FiniteSets, TLC

VARIABLES bd,   \* the call of break_down_trends: arguments and locals
          pk,   \* the call of peaks / valleys: arguments and locals
          sar,  \* the call of parabolic_time_price_system
          dms,  \* the call of directional_movement_system
          st,   \* the call of basic_indicators::single::{mean, max, min}
          bk,   \* the call of basic_indicators::bulk::{mean, median, mode}
          vs,   \* the call of volatility_system
          gf    \* the call of goodness_of_fit

vars == <<bd, pk, sar, dms, st, bk, vs, gf>>

---------------------------------------------------------------------------
(* Bounds of the model *)

MaxLen == 5        \* longest price series given to break_down_trends
MaxPrice == 2      \* prices are drawn from 0..MaxPrice
MaxOutliers == 2   \* max_outliers is drawn from 0..MaxOutliers
MaxPkLen == 4      \* longest price series given to peaks / valleys
MaxNeighbor == 2   \* closest_neighbor is drawn from 0..MaxNeighbor
MaxBars == 3       \* most bars given to parabolic_time_price_system
MaxBarPrice == 3   \* highs and lows are drawn from 1..MaxBarPrice
MaxRunBars == 4    \* bars of the longer runs of parabolic_time_price_system
MaxRunPrice == 4   \* their highs and lows are drawn from 1..MaxRunPrice
MaxStLen == 3      \* longest slice given to single::mean, max, min
MaxBkLen == 3      \* longest slice given to bulk::mean, median, mode
MaxVsLen == 3      \* most bars given to volatility_system
MaxGfLen == 4      \* most points given to goodness_of_fit
MaxGfPrice == 3    \* their prices are drawn from 0..MaxGfPrice
MaxDmsLen == 6     \* most bars given to directional_movement_system
MaxDmsPeriod == 2  \* its period is drawn from 0..MaxDmsPeriod

---------------------------------------------------------------------------
(* Exact rational arithmetic standing for f64 *)

Abs(n) == IF n < 0 THEN -n ELSE n

RECURSIVE GCD(_, _)
GCD(a, b) == IF b = 0 THEN a ELSE GCD(b, a % b)

NaN == <<0, 0>>

IsNaN(a) == a[2] = 0

\* the rational n/d in lowest terms; d = 0 is the result of a division by zero
Rat(n, d) ==
    IF d = 0 THEN NaN
    ELSE LET g == GCD(Abs(n), Abs(d))
             s == IF d < 0 THEN -1 ELSE 1
         IN  <<(s * n) \div g, (s * d) \div g>>

R(n) == <<n, 1>>

RAdd(a, b) ==
    IF IsNaN(a) \/ IsNaN(b) THEN NaN
    ELSE LET g == GCD(a[2], b[2])
         IN  Rat(a[1] * (b[2] \div g) + b[1] * (a[2] \div g), (a[2] \div g) * b[2])

RNeg(a) == <<-a[1], a[2]>>

RSub(a, b) == RAdd(a, RNeg(b))

RMul(a, b) ==
    IF IsNaN(a) \/ IsNaN(b) THEN NaN
    ELSE LET g1 == GCD(Abs(a[1]), b[2])
             g2 == GCD(Abs(b[1]), a[2])
         IN  IF a[1] = 0 \/ b[1] = 0 THEN <<0, 1>>
             ELSE <<(a[1] \div g1) * (b[1] \div g2), (a[2] \div g2) * (b[2] \div g1)>>

RDiv(a, b) ==
    IF IsNaN(a) \/ IsNaN(b) \/ b[1] = 0 THEN NaN
    ELSE RMul(a, Rat(b[2], b[1]))

\* a < b; false when either side is NaN, as for f64
RLt(a, b) ==
    /\ ~IsNaN(a)
    /\ ~IsNaN(b)
    /\ LET g == GCD(a[2], b[2])
       IN  a[1] * (b[2] \div g) < b[1] * (a[2] \div g)

RGt(a, b) == RLt(b, a)

RLe(a, b) == ~IsNaN(a) /\ ~IsNaN(b) /\ ~RLt(b, a)

\* f64::max / f64::min on two non-NaN values
RMax(a, b) == IF RLt(a, b) THEN b ELSE a

RMin(a, b) == IF RLt(b, a) THEN b ELSE a

\* f64::MAX: a sentinel above every finite value of a run
FMax == <<1, 0, "f64::MAX">>

IsFMax(a) == Len(a) = 3

Pop(s) == SubSeq(s, 1, Len(s) - 1)

Last(s) == s[Len(s)]

SeqsUpTo(S, n) == UNION {[1..k -> S] : k \in 0..n}

\* prices[k] for the 0-based index k of the source
At(s, k) == s[k + 1]


---------------------------------------------------------------------------
(* chart_trends.rs: OLS fit and goodness of fit *)

\* a > 1e-10 for a non-negative rational a: a positive numerator over a
\* denominator that fits TLC's integers (below 2^31 < 1e10)
GtEps(a) == ~IsNaN(a) /\ a[1] > 0

\* the sum s[1] + .. + s[k] of integers
RECURSIVE ISum(_, _)
ISum(s, k) == IF k = 0 THEN 0 ELSE s[k] + ISum(s, k - 1)

LCM(a, b) == (a \div GCD(a, b)) * b

\* the point (price, index) of the source; prices are whole numbers here
Point(prices, x) == <<At(prices, x), x>>

\* (start..=end).map(|x| (prices[x], x)).collect()
PointsOf(prices, start, end) == [k \in 1..(end - start + 1) |-> Point(prices, start + k - 1)]

\* The OLS fit.  With n = p.len(), n * dx = n * x - sum_x and
\* n * (y - mean_y) = n * y - sum_y are whole numbers, so num and den are
\* accumulated times n^2, which cancels in slope = num / den.
get_trend_line(p) ==
    LET n     == Len(p)
        sum_x == ISum([k \in 1..n |-> p[k][2]], n)
        sum_y == ISum([k \in 1..n |-> p[k][1]], n)
        mean_x == Rat(sum_x, n)
        mean_y == Rat(sum_y, n)
        num   == ISum([k \in 1..n |-> (n * p[k][2] - sum_x) * (n * p[k][1] - sum_y)], n)
        den   == ISum([k \in 1..n |-> (n * p[k][2] - sum_x) * (n * p[k][2] - sum_x)], n)
        slope == Rat(num, den)
        intercept == RSub(mean_y, RMul(slope, mean_x))
    IN  <<slope, intercept>>

\* the quotient without the guard on the residual sum
DurbinWatsonUnguarded(dw_num, sum_sq_residuals) == RDiv(dw_num, sum_sq_residuals)

\* if sum_sq_residuals > 1e-10 { dw_num / sum_sq_residuals } else { 2.0 }
DurbinWatson(dw_num, sum_sq_residuals) ==
    IF GtEps(sum_sq_residuals) THEN RDiv(dw_num, sum_sq_residuals) ELSE R(2)

\* the raw R^2 without its clamp at 0
RSquaredUnclamped(sum_sq_residuals, total_squares) ==
    IF GtEps(total_squares)
    THEN RSub(R(1), RDiv(sum_sq_residuals, total_squares))
    ELSE R(0)

\* if total_squares > 1e-10 { (1.0 - (sum_sq_residuals / total_squares)).max(0.0) }
\* else { 0.0 }
RSquared(sum_sq_residuals, total_squares) ==
    IF GtEps(total_squares)
    THEN RMax(RSub(R(1), RDiv(sum_sq_residuals, total_squares)), R(0))
    ELSE R(0)

\* The fit statistics <<adjusted_r_squared, rmse^2, durbin_watson>> of a
\* finite trend (slope, intercept).  With q the common denominator of slope
\* and intercept, q * residual is a whole number; the residual sums are
\* accumulated times q^2 and the total sum of squares times n^2.
goodness_of_fit(indexed_points, trend) ==
    LET n == Len(indexed_points)
        q == LCM(trend[1][2], trend[2][2])
        slope_q == trend[1][1] * (q \div trend[1][2])
        intercept_q == trend[2][1] * (q \div trend[2][2])
        sum_y == ISum([k \in 1..n |-> indexed_points[k][1]], n)
        \* q * (observed_prices[i] - trend_line[i])
        resid == [k \in 1..n |->
                    q * indexed_points[k][1]
                    - (intercept_q + slope_q * indexed_points[k][2])]
        \* n * (observed_prices[i] - observed_mean)
        total == [k \in 1..n |-> n * indexed_points[k][1] - sum_y]
        sum_sq_residuals == Rat(ISum([k \in 1..n |-> resid[k] * resid[k]], n), q * q)
        total_squares == Rat(ISum([k \in 1..n |-> total[k] * total[k]], n), n * n)
        degrees_of_freedom == IF n - 2 > 1 THEN n - 2 ELSE 1
        r_squared == RSquared(sum_sq_residuals, total_squares)
        adjusted_r_squared ==
            IF n > 2
            THEN RSub(R(1), RMul(RSub(R(1), r_squared), Rat(n - 1, degrees_of_freedom)))
            ELSE r_squared
        dw_num == Rat(ISum([k \in 1..(n - 1) |->
                              (resid[k + 1] - resid[k]) * (resid[k + 1] - resid[k])], n - 1),
                      q * q)
        durbin_watson == IF n > 1
                         THEN DurbinWatson(dw_num, sum_sq_residuals)
                         ELSE R(2)
        rmse_sq == RDiv(sum_sq_residuals, R(n))
    IN  IF n < 2 THEN <<R(0), R(0), R(2)>>
        ELSE <<adjusted_r_squared, rmse_sq, durbin_watson>>

\* rmse > multiplier * previous_rmse, on the squares; multiplier > 0.
\* multiplier * f64::MAX is f64::MAX-sized or +inf: no rmse is above it.
RmseAbove(rmse_sq, multiplier, previous_rmse_sq) ==
    IF IsFMax(previous_rmse_sq) THEN FALSE
    ELSE RGt(rmse_sq, RMul(RMul(multiplier, multiplier), previous_rmse_sq))

---------------------------------------------------------------------------
(* chart_trends.rs: TrendBreakConfig *)

Config(sa, ha, sr, hr, sdmin, sdmax, hdmin, hdmax) ==
    [soft_adj_r_squared_minimum |-> sa, hard_adj_r_squared_minimum |-> ha,
     soft_rmse_multiplier |-> sr, hard_rmse_multiplier |-> hr,
     soft_durbin_watson_min |-> sdmin, soft_durbin_watson_max |-> sdmax,
     hard_durbin_watson_min |-> hdmin, hard_durbin_watson_max |-> hdmax]

\* impl Default for TrendBreakConfig (without max_outliers)
DefaultConfig == Config(Rat(1, 4), Rat(1, 20), Rat(13, 10), R(2),
                        R(1), R(3), Rat(7, 10), Rat(33, 10))

\* the configuration of the test break_down_trends_std_dev
FixtureConfig == Config(Rat(1, 2), Rat(1, 4), Rat(6, 5), R(2),
                        R(1), R(3), Rat(1, 2), Rat(7, 2))

\* a configuration that only breaks on a strong RMSE growth
LaxConfig == Config(R(-9), R(-9), R(3), R(3), R(0), R(4), R(0), R(4))

Thresholds == {DefaultConfig, FixtureConfig, LaxConfig}

Configs == {[max_outliers |-> m, t |-> c] : m \in 0..MaxOutliers, c \in Thresholds}

---------------------------------------------------------------------------
(* chart_trends.rs: break_down_trends *)

\* a function that has not been called
Idle == [status |-> "idle"]

BdArgs(prices, config) ==
    [status |-> "called", prices |-> prices, trend_break_config |-> config,
     outliers |-> <<>>, trends |-> <<>>,
     current_slope |-> R(0), current_intercept |-> R(0),
     start_index |-> 0, end_index |-> 0, indexed_points |-> <<>>,
     previous_rmse |-> R(0), index |-> 0]

\* indexed_points after indexed_points.push((price, index))
BdWindow == Append(bd.indexed_points, Point(bd.prices, bd.index))

\* a soft break that asks for one of the three conditions only
soft_break_any(fit, c, previous_rmse) ==
    LET adjusted_r_squared == fit[1]
        rmse == fit[2]
        durbin_watson == fit[3]
    IN  \/ RLt(adjusted_r_squared, c.soft_adj_r_squared_minimum)
        \/ RmseAbove(rmse, c.soft_rmse_multiplier, previous_rmse)
        \/ (RLt(durbin_watson, c.soft_durbin_watson_min)
            \/ RGt(durbin_watson, c.soft_durbin_watson_max))

soft_break(fit, c, previous_rmse) ==
    LET adjusted_r_squared == fit[1]
        rmse == fit[2]
        durbin_watson == fit[3]
    IN  /\ RLt(adjusted_r_squared, c.soft_adj_r_squared_minimum)
        /\ RmseAbove(rmse, c.soft_rmse_multiplier, previous_rmse)
        /\ (RLt(durbin_watson, c.soft_durbin_watson_min)
            \/ RGt(durbin_watson, c.soft_durbin_watson_max))

\* a hard break that leaves the adjusted R^2 out
hard_break_without_r_squared(fit, c, previous_rmse) ==
    LET rmse == fit[2]
        durbin_watson == fit[3]
    IN  \/ RmseAbove(rmse, c.hard_rmse_multiplier, previous_rmse)
        \/ (RLt(durbin_watson, c.hard_durbin_watson_min)
            \/ RGt(durbin_watson, c.hard_durbin_watson_max))

hard_break(fit, c, previous_rmse) ==
    LET adjusted_r_squared == fit[1]
        rmse == fit[2]
        durbin_watson == fit[3]
    IN  \/ RLt(adjusted_r_squared, c.hard_adj_r_squared_minimum)
        \/ RmseAbove(rmse, c.hard_rmse_multiplier, previous_rmse)
        \/ (RLt(durbin_watson, c.hard_durbin_watson_min)
            \/ RGt(durbin_watson, c.hard_durbin_watson_max))

\* soft_break || hard_break for the window with the current point pushed
BdBreak(current_trend) ==
    LET fit == goodness_of_fit(BdWindow, current_trend)
    IN  \/ soft_break(fit, bd.trend_break_config.t, bd.previous_rmse)
        \/ hard_break(fit, bd.trend_break_config.t, bd.previous_rmse)

BdRunning == bd.status = "running" /\ bd.index < Len(bd.prices)

\* every point after the first evaluated
BdEvaluatesEveryPoint == BdRunning /\ bd.index # 0

\* the loop evaluates the point: index > end_index (and index /= 0)
BdEvaluates == BdRunning /\ bd.index # 0 /\ bd.index > bd.end_index

\* the emptiness check left out
BdIsEmptyUnchecked == FALSE

\* prices.is_empty()
BdIsEmpty == bd.prices = <<>>

\* if prices.is_empty() { panic!(..) }
BdPanicEmpty ==
    /\ bd.status = "called"
    /\ BdIsEmpty
    /\ bd' = [bd EXCEPT !.status = "panicked"]
    /\ UNCHANGED <<pk, sar, dms, st, bk, vs, gf>>

\* the declarations of the locals before the loop
BdStart ==
    /\ bd.status = "called"
    /\ ~BdIsEmpty
    /\ bd' = [bd EXCEPT !.status = "running",
                        !.outliers = <<>>, !.trends = <<>>,
                        !.current_slope = R(0), !.current_intercept = R(0),
                        !.start_index = 0, !.end_index = 1,
                        !.indexed_points = <<>>, !.previous_rmse = FMax,
                        !.index = 0]
    /\ UNCHANGED <<pk, sar, dms, st, bk, vs, gf>>

\* index == 0: push and continue (end_index keeps its value)
BdFirstPoint ==
    /\ BdRunning
    /\ bd.index = 0
    /\ bd' = [bd EXCEPT !.indexed_points = BdWindow, !.index = @ + 1]
    /\ UNCHANGED <<pk, sar, dms, st, bk, vs, gf>>

\* index <= end_index: push, end_index = index
BdNoEvaluation ==
    /\ BdRunning
    /\ bd.index # 0
    /\ ~(bd.index > bd.end_index)
    /\ bd' = [bd EXCEPT !.indexed_points = BdWindow,
                        !.end_index = bd.index, !.index = @ + 1]
    /\ UNCHANGED <<pk, sar, dms, st, bk, vs, gf>>

\* neither break: the point is accepted
BdAccept ==
    /\ BdEvaluates
    /\ LET current_trend == get_trend_line(BdWindow)
       IN  /\ ~BdBreak(current_trend)
           /\ bd' = [bd EXCEPT !.indexed_points = BdWindow,
                               !.previous_rmse = goodness_of_fit(BdWindow, current_trend)[2],
                               !.current_slope = current_trend[1],
                               !.current_intercept = current_trend[2],
                               !.end_index = bd.index, !.index = @ + 1]
    /\ UNCHANGED <<pk, sar, dms, st, bk, vs, gf>>

\* an outlier budget that admits one point more
BdOutlierBudgetInclusive == Len(bd.outliers) <= bd.trend_break_config.max_outliers

\* outliers.len() < trend_break_config.max_outliers
BdOutlierBudget == Len(bd.outliers) < bd.trend_break_config.max_outliers

\* a break with outliers.len() < max_outliers: push to outliers, pop, continue
BdOutlier ==
    /\ BdEvaluates
    /\ BdOutlierBudget
    /\ BdBreak(get_trend_line(BdWindow))
    /\ bd' = [bd EXCEPT !.outliers = Append(@, bd.index),
                        !.indexed_points = Pop(BdWindow),
                        !.index = @ + 1]
    /\ UNCHANGED <<pk, sar, dms, st, bk, vs, gf>>

\* the next segment started at the breaking point instead
NewStartIndexAtBreak == bd.index

\* start_index = end_index: the next segment starts where the closed one ends
NewStartIndex == bd.end_index

\* previous_rmse recomputed whatever the size of the new window
SplitPreviousRmseAlways(indexed_points, current_trend) ==
    goodness_of_fit(indexed_points, current_trend)[2]

\* if indexed_points.len() > 2 { (_, previous_rmse, _) = goodness_of_fit(..) }
\* else { previous_rmse = f64::MAX }
SplitPreviousRmse(indexed_points, current_trend) ==
    IF Len(indexed_points) > 2
    THEN goodness_of_fit(indexed_points, current_trend)[2]
    ELSE FMax

\* a break with the outlier budget used up: close the segment, start the next
BdSplit ==
    /\ BdEvaluates
    /\ ~BdOutlierBudget
    /\ BdBreak(get_trend_line(BdWindow))
    /\ LET start_index == NewStartIndex
           indexed_points == PointsOf(bd.prices, start_index, bd.index)
           current_trend == get_trend_line(indexed_points)
       IN  bd' = [bd EXCEPT
                    !.trends = Append(@, <<bd.start_index, bd.end_index,
                                           bd.current_slope, bd.current_intercept>>),
                    !.start_index = start_index,
                    !.end_index = bd.index,
                    !.indexed_points = indexed_points,
                    !.current_slope = current_trend[1],
                    !.current_intercept = current_trend[2],
                    !.previous_rmse = SplitPreviousRmse(indexed_points, current_trend),
                    !.outliers = <<>>,
                    !.index = @ + 1]
    /\ UNCHANGED <<pk, sar, dms, st, bk, vs, gf>>

\* after the loop: push the segment in progress and return trends
BdReturn ==
    /\ bd.status = "running"
    /\ bd.index = Len(bd.prices)
    /\ bd' = [bd EXCEPT !.status = "returned",
                        !.trends = Append(@, <<bd.start_index, bd.end_index,
                                               bd.current_slope, bd.current_intercept>>)]
    /\ UNCHANGED <<pk, sar, dms, st, bk, vs, gf>>

---------------------------------------------------------------------------
(* basic_indicators.rs: single::max, single::min *)

\* f64::NAN as a price: prices are non-negative here, and nothing equals NaN
FNaN == -1

\* The Result of assert_non_empty is dropped; NaN entries are filtered out and
\* the rest folded from f64::NAN, so an empty slice yields NaN.
RECURSIVE max(_)
max(prices) ==
    IF prices = <<>> THEN FNaN
    ELSE LET rest == max(Pop(prices))
         IN  IF rest = FNaN THEN Last(prices)
             ELSE IF Last(prices) > rest THEN Last(prices) ELSE rest

RECURSIVE min(_)
min(prices) ==
    IF prices = <<>> THEN FNaN
    ELSE LET rest == min(Pop(prices))
         IN  IF rest = FNaN THEN Last(prices)
             ELSE IF Last(prices) < rest THEN Last(prices) ELSE rest

---------------------------------------------------------------------------
(* validation.rs *)

\* a period check that forgets the upper limit
assert_period_zero_only(period, data_len) == IF period = 0 THEN "Err" ELSE "Ok"

\* assert_period: Err(InvalidPeriod) when period is 0 or above data_len
assert_period(period, data_len) ==
    IF period = 0 THEN "Err"
    ELSE IF period > data_len THEN "Err"
    ELSE "Ok"

---------------------------------------------------------------------------
(* chart_trends.rs: peaks and valleys *)

\* usize arithmetic wraps modulo 2^64 when overflow checks are off; the model
\* keeps 30 bits, which fit TLC's integers
UsizeModulus == 1073741824

None == -2

\* position instead of rposition: the first position holding v
rpositionFirst(window, v) ==
    IF v # FNaN /\ \E k \in 1..Len(window) : window[k] = v
    THEN (CHOOSE k \in 1..Len(window) :
             /\ window[k] = v
             /\ \A j \in 1..(k - 1) : window[j] # v) - 1
    ELSE None

\* unwrap_or(0) instead of unwrap: no position becomes position 0
rpositionOrZero(window, v) ==
    IF v # FNaN /\ \E k \in 1..Len(window) : window[k] = v
    THEN (CHOOSE k \in 1..Len(window) :
             /\ window[k] = v
             /\ \A j \in (k + 1)..Len(window) : window[j] # v) - 1
    ELSE 0

\* window.iter().rposition(|&x| x == v): the last 0-based position, or None
rposition(window, v) ==
    IF v # FNaN /\ \E k \in 1..Len(window) : window[k] = v
    THEN (CHOOSE k \in 1..Len(window) :
             /\ window[k] = v
             /\ \A j \in (k + 1)..Len(window) : window[j] # v) - 1
    ELSE None

\* &prices[i..i + period]
Window(prices, i, period) == SubSeq(prices, i + 1, i + period)

PkArgs(fn, prices, period, closest_neighbor) ==
    [status |-> "called", fn |-> fn, prices |-> prices, period |-> period,
     closest_neighbor |-> closest_neighbor,
     peaks |-> <<>>, last_peak_idx |-> 0, last_peak |-> 0,
     i |-> 0, last_i |-> 0, peak |-> 0, idx |-> 0]

\* max(window) in peaks, min(window) in valleys
PkExtremum(window) == IF pk.fn = "peaks" THEN max(window) ELSE min(window)

\* `peak < last_peak` in peaks, `valley > last_valley` in valleys
PkWorse(a, b) == IF pk.fn = "peaks" THEN a < b ELSE a > b

\* `peak > last_peak` in peaks, `valley < last_valley` in valleys
PkBetter(a, b) == IF pk.fn = "peaks" THEN a > b ELSE a < b

PkRunning == pk.status = "running" /\ pk.i <= pk.last_i

PkWindow == Window(pk.prices, pk.i, pk.period)

PkPeak == PkExtremum(PkWindow)

\* the window offset i left out of idx
PkIdxLocal == rposition(PkWindow, PkPeak)

\* let idx = i + local_idx
PkIdx == pk.i + rposition(PkWindow, PkPeak)

\* the window is in range and holds its extremum: the iteration computes
\* (peak, idx) without a panic
PkCandidate ==
    /\ PkRunning
    /\ pk.i + pk.period <= Len(pk.prices)
    /\ rposition(PkWindow, PkPeak) # None

\* `length - period` with overflow checks on (debug build): subtraction overflow
PkPanicOverflow ==
    /\ pk.status = "called"
    /\ pk.period > Len(pk.prices)
    /\ pk' = [pk EXCEPT !.status = "panicked"]
    /\ UNCHANGED <<bd, sar, dms, st, bk, vs, gf>>

\* assert_period(period, length); with its Result dropped, the locals, and the
\* range 0..=length - period (wrapping when overflow checks are off)
PkStart ==
    /\ pk.status = "called"
    /\ assert_period(pk.period, Len(pk.prices)) \in {"Ok", "Err"}
    /\ pk' = [pk EXCEPT !.status = "running",
                        !.peaks = <<>>, !.last_peak_idx = 0, !.last_peak = 0,
                        !.i = 0,
                        !.last_i = (Len(pk.prices) - pk.period) % UsizeModulus]
    /\ UNCHANGED <<bd, sar, dms, st, bk, vs, gf>>

\* &prices[i..i + period] out of range
PkPanicSlice ==
    /\ PkRunning
    /\ pk.i + pk.period > Len(pk.prices)
    /\ pk' = [pk EXCEPT !.status = "panicked"]
    /\ UNCHANGED <<bd, sar, dms, st, bk, vs, gf>>

\* rposition(..) is None (the extremum of an empty window is NaN): unwrap panics
PkPanicUnwrap ==
    /\ PkRunning
    /\ pk.i + pk.period <= Len(pk.prices)
    /\ rposition(PkWindow, PkPeak) = None
    /\ pk' = [pk EXCEPT !.status = "panicked"]
    /\ UNCHANGED <<bd, sar, dms, st, bk, vs, gf>>

\* last_peak_idx == 0: push unconditionally
PkFirst ==
    /\ PkCandidate
    /\ pk.last_peak_idx = 0
    /\ pk' = [pk EXCEPT !.peaks = Append(@, <<PkPeak, PkIdx>>),
                        !.last_peak_idx = PkIdx, !.last_peak = PkPeak,
                        !.peak = PkPeak, !.idx = PkIdx, !.i = @ + 1]
    /\ UNCHANGED <<bd, sar, dms, st, bk, vs, gf>>

\* a worse candidate that leaves the last accepted index where it was
PkAbsorbedIdxKept == pk.last_peak_idx

\* last_peak_idx = idx in the branch of the worse candidate
PkAbsorbedIdx == PkIdx

\* within closest_neighbor and worse: only last_peak_idx moves
PkAbsorb ==
    /\ PkCandidate
    /\ pk.last_peak_idx # 0
    /\ PkIdx <= pk.last_peak_idx + pk.closest_neighbor
    /\ PkWorse(PkPeak, pk.last_peak)
    /\ pk' = [pk EXCEPT !.last_peak_idx = PkAbsorbedIdx,
                        !.peak = PkPeak, !.idx = PkIdx, !.i = @ + 1]
    /\ UNCHANGED <<bd, sar, dms, st, bk, vs, gf>>

\* within closest_neighbor and better: pop, push
PkReplace ==
    /\ PkCandidate
    /\ pk.last_peak_idx # 0
    /\ PkIdx <= pk.last_peak_idx + pk.closest_neighbor
    /\ ~PkWorse(PkPeak, pk.last_peak)
    /\ PkBetter(PkPeak, pk.last_peak)
    /\ pk' = [pk EXCEPT !.peaks = Append(Pop(@), <<PkPeak, PkIdx>>),
                        !.last_peak_idx = PkIdx, !.last_peak = PkPeak,
                        !.peak = PkPeak, !.idx = PkIdx, !.i = @ + 1]
    /\ UNCHANGED <<bd, sar, dms, st, bk, vs, gf>>

\* within closest_neighbor and equal: nothing changes
PkEqual ==
    /\ PkCandidate
    /\ pk.last_peak_idx # 0
    /\ PkIdx <= pk.last_peak_idx + pk.closest_neighbor
    /\ ~PkWorse(PkPeak, pk.last_peak)
    /\ ~PkBetter(PkPeak, pk.last_peak)
    /\ pk' = [pk EXCEPT !.peak = PkPeak, !.idx = PkIdx, !.i = @ + 1]
    /\ UNCHANGED <<bd, sar, dms, st, bk, vs, gf>>

\* beyond closest_neighbor: push unless peaks.contains(&(peak, idx))
PkBeyond ==
    /\ PkCandidate
    /\ pk.last_peak_idx # 0
    /\ ~(PkIdx <= pk.last_peak_idx + pk.closest_neighbor)
    /\ pk' = IF ~(\E k \in 1..Len(pk.peaks) : pk.peaks[k] = <<PkPeak, PkIdx>>)
             THEN [pk EXCEPT !.peaks = Append(@, <<PkPeak, PkIdx>>),
                             !.last_peak_idx = PkIdx, !.last_peak = PkPeak,
                             !.peak = PkPeak, !.idx = PkIdx, !.i = @ + 1]
             ELSE [pk EXCEPT !.peak = PkPeak, !.idx = PkIdx, !.i = @ + 1]
    /\ UNCHANGED <<bd, sar, dms, st, bk, vs, gf>>

\* the range is exhausted: return peaks
PkReturn ==
    /\ pk.status = "running"
    /\ pk.i > pk.last_i
    /\ pk' = [pk EXCEPT !.status = "returned"]
    /\ UNCHANGED <<bd, sar, dms, st, bk, vs, gf>>

PeaksInit ==
    /\ pk \in {PkArgs(fn, p, period, cn) :
                 fn \in {"peaks", "valleys"},
                 p \in SeqsUpTo(0..MaxPrice, MaxPkLen),
                 period \in 0..(MaxPkLen + 1),
                 cn \in 0..MaxNeighbor}
    /\ bd = Idle
    /\ sar = Idle
    /\ dms = Idle
    /\ st = Idle
    /\ bk = Idle
    /\ vs = Idle
    /\ gf = Idle

PeaksNext ==
    \/ PkPanicOverflow
    \/ PkStart
    \/ PkPanicSlice
    \/ PkPanicUnwrap
    \/ PkFirst
    \/ PkAbsorb
    \/ PkReplace
    \/ PkEqual
    \/ PkBeyond
    \/ PkReturn

PeaksSpec == PeaksInit /\ [][PeaksNext]_vars

TrendsInit ==
    /\ bd \in {BdArgs(p, c) : p \in SeqsUpTo(0..MaxPrice, MaxLen), c \in Configs}
    /\ pk = Idle
    /\ sar = Idle
    /\ dms = Idle
    /\ st = Idle
    /\ bk = Idle
    /\ vs = Idle
    /\ gf = Idle

TrendsNext ==
    \/ BdPanicEmpty
    \/ BdStart
    \/ BdFirstPoint
    \/ BdNoEvaluation
    \/ BdAccept
    \/ BdOutlier
    \/ BdSplit
    \/ BdReturn

TrendsSpec == TrendsInit /\ [][TrendsNext]_vars

---------------------------------------------------------------------------
(* trend_indicators.rs: single::long_ / short_parabolic_time_price_system *)

\* the long SAR without its clamp to the low
long_sar_unclamped(previous_sar, extreme_point, acceleration_factor, low) ==
    RAdd(previous_sar, RMul(acceleration_factor, RSub(extreme_point, previous_sar)))

long_parabolic_time_price_system(previous_sar, extreme_point, acceleration_factor, low) ==
    LET sar_value == RAdd(previous_sar,
                          RMul(acceleration_factor, RSub(extreme_point, previous_sar)))
    IN  RMin(sar_value, low)

short_parabolic_time_price_system(previous_sar, extreme_point, acceleration_factor, high) ==
    LET sar_value == RSub(previous_sar,
                          RMul(acceleration_factor, RSub(previous_sar, extreme_point)))
    IN  RMax(sar_value, high)

---------------------------------------------------------------------------
(* trend_indicators.rs: bulk::parabolic_time_price_system *)

\* the 0.0000001 taken off acceleration_factor_max
AfEpsilon == Rat(1, 10000000)

\* (start, max, step) with start <= max and step > 0: the cap is met exactly,
\* the cap is stepped over, and the start is already the cap
AfSettings == {<<Rat(1, 4), Rat(1, 2), Rat(1, 4)>>,
               <<Rat(1, 4), Rat(1, 2), Rat(1, 2)>>,
               <<Rat(1, 2), Rat(1, 2), Rat(1, 4)>>}

\* bars (high, low) with low <= high
Bars == {b \in (1..MaxBarPrice) \X (1..MaxBarPrice) : b[2] <= b[1]}

SarArgs(highs, lows, af, start_position, previous_sar) ==
    [status |-> "called", highs |-> highs, lows |-> lows,
     acceleration_factor_start |-> af[1], acceleration_factor_max |-> af[2],
     acceleration_factor_step |-> af[3],
     start_position |-> start_position, previous_sar |-> previous_sar,
     acceleration_factor |-> af[1], sars |-> <<>>,
     position |-> start_position, position_start |-> 0, i |-> 0]

\* let acceleration_factor_max = acceleration_factor_max - 0.0000001
AfCeiling == RSub(sar.acceleration_factor_max, AfEpsilon)

\* the step added whatever the factor has reached
RatchetUpUncapped(acceleration_factor) ==
    RAdd(acceleration_factor, sar.acceleration_factor_step)

\* if acceleration_factor <= acceleration_factor_max { acceleration_factor += step }
RatchetUp(acceleration_factor) ==
    IF RLe(acceleration_factor, AfCeiling)
    THEN RAdd(acceleration_factor, sar.acceleration_factor_step)
    ELSE acceleration_factor

\* the acceleration factor kept over a flip
FlipFactorKept == sar.acceleration_factor

\* acceleration_factor = acceleration_factor_start on a flip
FlipFactor == sar.acceleration_factor_start

\* &v[a..b] with 0-based a and an exclusive b
Slice(v, a, b) == SubSeq(v, a + 1, b)

SarRunning == sar.status = "running" /\ sar.i < Len(sar.highs)

SarPrevious == Last(sar.sars)

\* highs.is_empty() || lows.is_empty()
SarIsEmpty == sar.highs = <<>> \/ sar.lows = <<>>

\* only a longer highs is refused
SarLengthsDifferOneWay == Len(sar.highs) > Len(sar.lows)

\* length != lows.len()
SarLengthsDiffer == Len(sar.highs) # Len(sar.lows)

\* a high that only touches the previous SAR counted as a break
SarBreaksAboveOrTouches == RLe(SarPrevious, R(At(sar.highs, sar.i)))

\* highs[i] > previous_sar
SarBreaksAbove == RGt(R(At(sar.highs, sar.i)), SarPrevious)

\* lows[i] < previous_sar
SarBreaksBelow == RLt(R(At(sar.lows, sar.i)), SarPrevious)

SarPanicEmpty ==
    /\ sar.status = "called"
    /\ SarIsEmpty
    /\ sar' = [sar EXCEPT !.status = "panicked"]
    /\ UNCHANGED <<bd, pk, dms, st, bk, vs, gf>>

SarPanicLength ==
    /\ sar.status = "called"
    /\ ~SarIsEmpty
    /\ SarLengthsDiffer
    /\ sar' = [sar EXCEPT !.status = "panicked"]
    /\ UNCHANGED <<bd, pk, dms, st, bk, vs, gf>>

\* the locals and the SAR of the first bar
SarFirstBar ==
    /\ sar.status = "called"
    /\ ~SarIsEmpty
    /\ ~SarLengthsDiffer
    /\ LET acceleration_factor == sar.acceleration_factor_start
           high == R(At(sar.highs, 0))
           low == R(At(sar.lows, 0))
           first == IF sar.start_position = "Long"
                    THEN IF sar.previous_sar = R(0)
                         THEN long_parabolic_time_price_system(low, high,
                                                               acceleration_factor, low)
                         ELSE long_parabolic_time_price_system(sar.previous_sar, high,
                                                               acceleration_factor, low)
                    ELSE IF sar.previous_sar = R(0)
                         THEN short_parabolic_time_price_system(high, low,
                                                                acceleration_factor, high)
                         ELSE short_parabolic_time_price_system(sar.previous_sar, low,
                                                                acceleration_factor, high)
       IN  sar' = [sar EXCEPT !.status = "running",
                              !.acceleration_factor = acceleration_factor,
                              !.sars = <<first>>,
                              !.position = sar.start_position,
                              !.position_start = 0,
                              !.i = 1]
    /\ UNCHANGED <<bd, pk, dms, st, bk, vs, gf>>

\* Short and highs[i] > previous_sar: flip to Long
SarFlipToLong ==
    /\ SarRunning
    /\ sar.position = "Short"
    /\ SarBreaksAbove
    /\ LET period_max == R(At(sar.highs, sar.i))
           previous_min == R(min(Slice(sar.lows, sar.i - 1, sar.i + 1)))
           acceleration_factor == FlipFactor
           pivoted_sar == R(min(Slice(sar.lows, sar.position_start, sar.i)))
       IN  sar' = [sar EXCEPT
                     !.position = "Long",
                     !.acceleration_factor = acceleration_factor,
                     !.position_start = sar.i,
                     !.sars = Append(@, long_parabolic_time_price_system(
                                  pivoted_sar, period_max, acceleration_factor, previous_min)),
                     !.i = @ + 1]
    /\ UNCHANGED <<bd, pk, dms, st, bk, vs, gf>>

\* Short without a flip
SarShort ==
    /\ SarRunning
    /\ sar.position = "Short"
    /\ ~SarBreaksAbove
    /\ LET running_min == min(Slice(sar.lows, sar.position_start, sar.i))
           new_low == running_min > At(sar.lows, sar.i)
           period_min == IF new_low THEN At(sar.lows, sar.i) ELSE running_min
           acceleration_factor == IF new_low THEN RatchetUp(sar.acceleration_factor)
                                  ELSE sar.acceleration_factor
           previous_max == R(max(Slice(sar.highs, sar.i - 1, sar.i + 1)))
       IN  sar' = [sar EXCEPT
                     !.acceleration_factor = acceleration_factor,
                     !.sars = Append(@, short_parabolic_time_price_system(
                                  SarPrevious, R(period_min), acceleration_factor,
                                  previous_max)),
                     !.i = @ + 1]
    /\ UNCHANGED <<bd, pk, dms, st, bk, vs, gf>>

\* Long and lows[i] < previous_sar: flip to Short
SarFlipToShort ==
    /\ SarRunning
    /\ sar.position = "Long"
    /\ SarBreaksBelow
    /\ LET period_min == R(At(sar.lows, sar.i))
           acceleration_factor == FlipFactor
           previous_max == R(max(Slice(sar.highs, sar.i - 1, sar.i + 1)))
           pivoted_sar == R(max(Slice(sar.highs, sar.position_start, sar.i)))
       IN  sar' = [sar EXCEPT
                     !.position = "Short",
                     !.acceleration_factor = acceleration_factor,
                     !.position_start = sar.i,
                     !.sars = Append(@, short_parabolic_time_price_system(
                                  pivoted_sar, period_min, acceleration_factor, previous_max)),
                     !.i = @ + 1]
    /\ UNCHANGED <<bd, pk, dms, st, bk, vs, gf>>

\* Long without a flip
SarLong ==
    /\ SarRunning
    /\ sar.position = "Long"
    /\ ~SarBreaksBelow
    /\ LET running_max == max(Slice(sar.highs, sar.position_start, sar.i))
           new_high == running_max < At(sar.highs, sar.i)
           period_max == IF new_high THEN At(sar.highs, sar.i) ELSE running_max
           acceleration_factor == IF new_high THEN RatchetUp(sar.acceleration_factor)
                                  ELSE sar.acceleration_factor
           previous_min == R(min(Slice(sar.lows, sar.i - 1, sar.i + 1)))
       IN  sar' = [sar EXCEPT
                     !.acceleration_factor = acceleration_factor,
                     !.sars = Append(@, long_parabolic_time_price_system(
                                  SarPrevious, R(period_max), acceleration_factor,
                                  previous_min)),
                     !.i = @ + 1]
    /\ UNCHANGED <<bd, pk, dms, st, bk, vs, gf>>

\* the loop is over: return sars
SarReturn ==
    /\ sar.status = "running"
    /\ sar.i = Len(sar.highs)
    /\ sar' = [sar EXCEPT !.status = "returned"]
    /\ UNCHANGED <<bd, pk, dms, st, bk, vs, gf>>

\* highs and lows of the same bars, or lows one bar short, or highs one bar short
SarSeries ==
    LET series == SeqsUpTo(Bars, MaxBars)
        highsOf(b) == [k \in 1..Len(b) |-> b[k][1]]
        lowsOf(b) == [k \in 1..Len(b) |-> b[k][2]]
    IN  {<<highsOf(b), lowsOf(b)>> : b \in series}
        \cup {<<highsOf(b), Pop(lowsOf(b))>> : b \in SeqsUpTo(Bars, 2) \ {<<>>}}
        \cup {<<Pop(highsOf(b)), lowsOf(b)>> : b \in SeqsUpTo(Bars, 2) \ {<<>>}}

SarInit ==
    /\ sar \in {SarArgs(hl[1], hl[2], af, pos, prev) :
                  hl \in SarSeries, af \in AfSettings,
                  pos \in {"Long", "Short"}, prev \in {R(0), R(2)}}
    /\ bd = Idle
    /\ pk = Idle
    /\ dms = Idle
    /\ st = Idle
    /\ bk = Idle
    /\ vs = Idle
    /\ gf = Idle

SarNext ==
    \/ SarPanicEmpty
    \/ SarPanicLength
    \/ SarFirstBar
    \/ SarFlipToLong
    \/ SarShort
    \/ SarFlipToShort
    \/ SarLong
    \/ SarReturn

SarSpec == SarInit /\ [][SarNext]_vars

\* bars (high, low) with low <= high over a wider range of prices
RunBars == {b \in (1..MaxRunPrice) \X (1..MaxRunPrice) : b[2] <= b[1]}

\* the same calls with previous_sar = 0.0, and the calls over MaxRunBars bars:
\* long enough for a position to outlast the two bars its SAR is clamped to
SarRunInit ==
    /\ \/ \E hl \in SarSeries, af \in AfSettings, pos \in {"Long", "Short"} :
              sar = SarArgs(hl[1], hl[2], af, pos, R(0))
       \/ \E b \in [1..MaxRunBars -> RunBars], af \in AfSettings, pos \in {"Long", "Short"} :
              sar = SarArgs([k \in 1..MaxRunBars |-> b[k][1]],
                            [k \in 1..MaxRunBars |-> b[k][2]], af, pos, R(0))
    /\ bd = Idle
    /\ pk = Idle
    /\ dms = Idle
    /\ st = Idle
    /\ bk = Idle
    /\ vs = Idle
    /\ gf = Idle

SarRunSpec == SarRunInit /\ [][SarNext]_vars

---------------------------------------------------------------------------
(* basic_indicators.rs: single::median, single::mode *)

\* f64::abs
RAbs(a) == <<Abs(a[1]), a[2]>>

\* `price.round() as i64`: halves round away from zero, NaN casts to 0
Round(a) ==
    IF IsNaN(a) THEN 0
    ELSE IF a[1] >= 0 THEN (2 * a[1] + a[2]) \div (2 * a[2])
    ELSE -((2 * (-a[1]) + a[2]) \div (2 * a[2]))

\* prices without its NaN entries, sorted
SortedValues(prices) ==
    SortSeq(SelectSeq(prices, LAMBDA f : ~IsNaN(f)), LAMBDA a, b : RLt(a, b))

\* values[mid - 1] with mid = 0: usize underflow or an index out of range
single_median_panics(prices) == SortedValues(prices) = <<>>

\* single::median for a slice on which it does not panic
single_median(prices) ==
    LET values == SortedValues(prices)
        mid == Len(values) \div 2
    IN  IF Len(values) % 2 = 0
        THEN RDiv(RAdd(values[mid], values[mid + 1]), R(2))
        ELSE values[mid + 1]

\* frequency.values().copied().max().unwrap() on an empty map
single_mode_panics(prices) == prices = <<>>

\* single::mode for a non-empty slice
single_mode(prices) ==
    LET keys == {Round(prices[k]) : k \in 1..Len(prices)}
        count(v) == Cardinality({k \in 1..Len(prices) : Round(prices[k]) = v})
        max_count == CHOOSE c \in {count(v) : v \in keys} :
                         \A v \in keys : count(v) <= c
        modes == {v \in keys : count(v) = max_count}
        RECURSIVE SetSum(_)
        SetSum(S) == IF S = {} THEN 0
                     ELSE LET v == CHOOSE x \in S : TRUE IN v + SetSum(S \ {v})
    IN  Rat(SetSum(modes), Cardinality(modes))

\* prices.windows(period) panics for a window size of 0
windows_panics(period) == period = 0

\* prices.windows(period), for period > 0: no window when period > len
windows(prices, period) ==
    [k \in 1..(Len(prices) - period + 1) |-> Window(prices, k - 1, period)]

\* bulk::median panics in windows(0) or in single::median; the Result of
\* assert_period is dropped
bulk_median_panics(prices, period) ==
    \/ windows_panics(period)
    \/ LET w == windows(prices, period)
       IN  \E k \in 1..Len(w) : single_median_panics(w[k])

bulk_median(prices, period) ==
    LET w == windows(prices, period)
    IN  [k \in 1..Len(w) |-> single_median(w[k])]

bulk_mode_panics(prices, period) ==
    \/ windows_panics(period)
    \/ LET w == windows(prices, period)
       IN  \E k \in 1..Len(w) : single_mode_panics(w[k])

bulk_mode(prices, period) ==
    LET w == windows(prices, period)
    IN  [k \in 1..Len(w) |-> single_mode(w[k])]

---------------------------------------------------------------------------
(* basic_indicators.rs: single::mean, single::max, single::min as calls *)

\* validation.rs: Err(EmptyData) for an empty slice
assert_non_empty(slice) == IF slice = <<>> THEN "Err" ELSE "Ok"

\* prices.iter().sum::<f64>() / prices.len() as f64; 0.0 / 0.0 is NaN
single_mean(prices) == RDiv(R(ISum(prices, Len(prices))), R(Len(prices)))

\* a whole-number price, or the NaN of an empty fold, as an f64
AsF64(v) == IF v = FNaN THEN NaN ELSE R(v)

StArgs(fn, prices) == [status |-> "called", fn |-> fn, prices |-> prices, value |-> NaN]

\* single::mean: the Result of assert_non_empty is dropped, the quotient returned
StMean ==
    /\ st.status = "called"
    /\ st.fn = "mean"
    /\ assert_non_empty(st.prices) \in {"Ok", "Err"}
    /\ st' = [st EXCEPT !.status = "returned", !.value = single_mean(st.prices)]
    /\ UNCHANGED <<bd, pk, sar, dms, bk, vs, gf>>

\* single::max: the Result of assert_non_empty is dropped, the fold returned
StMax ==
    /\ st.status = "called"
    /\ st.fn = "max"
    /\ assert_non_empty(st.prices) \in {"Ok", "Err"}
    /\ st' = [st EXCEPT !.status = "returned", !.value = AsF64(max(st.prices))]
    /\ UNCHANGED <<bd, pk, sar, dms, bk, vs, gf>>

\* single::min: the Result of assert_non_empty is dropped, the fold returned
StMin ==
    /\ st.status = "called"
    /\ st.fn = "min"
    /\ assert_non_empty(st.prices) \in {"Ok", "Err"}
    /\ st' = [st EXCEPT !.status = "returned", !.value = AsF64(min(st.prices))]
    /\ UNCHANGED <<bd, pk, sar, dms, bk, vs, gf>>

StInit ==
    /\ st \in {StArgs(fn, prices) :
                 fn \in {"mean", "max", "min"}, prices \in SeqsUpTo(0..MaxPrice, MaxStLen)}
    /\ bd = Idle
    /\ pk = Idle
    /\ sar = Idle
    /\ dms = Idle
    /\ bk = Idle
    /\ vs = Idle
    /\ gf = Idle

StNext ==
    \/ StMean
    \/ StMax
    \/ StMin

StSpec == StInit /\ [][StNext]_vars

---------------------------------------------------------------------------
(* basic_indicators.rs: bulk::mean, bulk::median, bulk::mode as calls *)

\* whole-number prices as f64 values
F64s(prices) == [k \in 1..Len(prices) |-> R(prices[k])]

BkArgs(fn, prices, period) ==
    [status |-> "called", fn |-> fn, prices |-> prices, period |-> period,
     result |-> <<>>, i |-> 0]

\* single::mean / median / mode panics on the window
BkSinglePanics(window) ==
    IF bk.fn = "mean" THEN FALSE
    ELSE IF bk.fn = "median" THEN single_median_panics(F64s(window))
    ELSE single_mode_panics(F64s(window))

\* single::mean / median / mode of the window
BkSingle(window) ==
    IF bk.fn = "mean" THEN single_mean(window)
    ELSE IF bk.fn = "median" THEN single_median(F64s(window))
    ELSE single_mode(F64s(window))

\* the Result of assert_period is dropped; prices.windows(0) panics
BkPanicWindows ==
    /\ bk.status = "called"
    /\ assert_period(bk.period, Len(bk.prices)) \in {"Ok", "Err"}
    /\ windows_panics(bk.period)
    /\ bk' = [bk EXCEPT !.status = "panicked"]
    /\ UNCHANGED <<bd, pk, sar, dms, st, vs, gf>>

\* the Result of assert_period is dropped; result is created
BkStart ==
    /\ bk.status = "called"
    /\ assert_period(bk.period, Len(bk.prices)) \in {"Ok", "Err"}
    /\ ~windows_panics(bk.period)
    /\ bk' = [bk EXCEPT !.status = "running", !.result = <<>>, !.i = 0]
    /\ UNCHANGED <<bd, pk, sar, dms, st, vs, gf>>

\* one pass of `for window in prices.windows(period)`
BkPush ==
    /\ bk.status = "running"
    /\ bk.i < Len(windows(bk.prices, bk.period))
    /\ LET window == windows(bk.prices, bk.period)[bk.i + 1]
       IN  IF BkSinglePanics(window)
           THEN bk' = [bk EXCEPT !.status = "panicked"]
           ELSE bk' = [bk EXCEPT !.result = Append(@, BkSingle(window)), !.i = @ + 1]
    /\ UNCHANGED <<bd, pk, sar, dms, st, vs, gf>>

\* no window is left: return result
BkReturn ==
    /\ bk.status = "running"
    /\ bk.i = Len(windows(bk.prices, bk.period))
    /\ bk' = [bk EXCEPT !.status = "returned"]
    /\ UNCHANGED <<bd, pk, sar, dms, st, vs, gf>>

BkInit ==
    /\ bk \in {BkArgs(fn, prices, period) :
                 fn \in {"mean", "median", "mode"},
                 prices \in SeqsUpTo(0..MaxPrice, MaxBkLen),
                 period \in 0..(MaxBkLen + 1)}
    /\ bd = Idle
    /\ pk = Idle
    /\ sar = Idle
    /\ dms = Idle
    /\ st = Idle
    /\ vs = Idle
    /\ gf = Idle

BkNext ==
    \/ BkPanicWindows
    \/ BkStart
    \/ BkPush
    \/ BkReturn

BkSpec == BkInit /\ [][BkNext]_vars

---------------------------------------------------------------------------
(* trend_indicators.rs: bulk::directional_movement_system *)

\* <<high, low, close>> of one bar; from one bar to another the two
\* differences are equal and positive, none positive, only the high one
\* positive, or both positive with the low one larger
DmsBars == {<<4, 3, 3>>, <<6, 1, 6>>, <<5, 3, 3>>}

\* ConstantModelType: the variants whose smoothing is basic_indicators code
DmsModels == {"SimpleMovingMedian", "SimpleMovingMode"}

DmsArgs(high, low, close, period, constant_model_type) ==
    [status |-> "called", high |-> high, low |-> low, close |-> close,
     period |-> period, constant_model_type |-> constant_model_type,
     positive_dm |-> <<>>, negative_dm |-> <<>>, i |-> 0,
     panic |-> "none", directional_movement_system |-> <<>>]

\* length != low.len() || length != close.len()
DmsLengthsDiffer ==
    Len(dms.high) # Len(dms.low) \/ Len(dms.high) # Len(dms.close)

\* a length check that also refuses length = 3 * period
DmsTooShortOrEqual == 3 * dms.period >= Len(dms.high)

\* let length_min = 3 * period; length_min > length
DmsTooShort == 3 * dms.period > Len(dms.high)

DmsPanicLength ==
    /\ dms.status = "called"
    /\ DmsLengthsDiffer
    /\ dms' = [dms EXCEPT !.status = "panicked", !.panic = "length"]
    /\ UNCHANGED <<bd, pk, sar, st, bk, vs, gf>>

DmsPanicEmpty ==
    /\ dms.status = "called"
    /\ ~DmsLengthsDiffer
    /\ dms.high = <<>>
    /\ dms' = [dms EXCEPT !.status = "panicked", !.panic = "empty"]
    /\ UNCHANGED <<bd, pk, sar, st, bk, vs, gf>>

DmsPanicPeriod ==
    /\ dms.status = "called"
    /\ ~DmsLengthsDiffer
    /\ dms.high # <<>>
    /\ DmsTooShort
    /\ dms' = [dms EXCEPT !.status = "panicked", !.panic = "period"]
    /\ UNCHANGED <<bd, pk, sar, st, bk, vs, gf>>

\* the checks passed: positive_dm and negative_dm are created
DmsStart ==
    /\ dms.status = "called"
    /\ ~DmsLengthsDiffer
    /\ dms.high # <<>>
    /\ ~DmsTooShort
    /\ dms' = [dms EXCEPT !.status = "running", !.i = 1]
    /\ UNCHANGED <<bd, pk, sar, st, bk, vs, gf>>

\* a strict comparison replaced by >=
DmDominatesOrTies(diff, other) == diff > 0 /\ diff >= other

\* high_diff > 0.0 && high_diff > low_diff (and the same test for low_diff)
DmDominates(diff, other) == diff > 0 /\ diff > other

\* one pass of `for i in 1..length`: the directional movement of bar i
DmsBar ==
    /\ dms.status = "running"
    /\ dms.i < Len(dms.high)
    /\ LET high_diff == At(dms.high, dms.i) - At(dms.high, dms.i - 1)
           low_diff == At(dms.low, dms.i - 1) - At(dms.low, dms.i)
       IN  IF DmDominates(high_diff, low_diff)
           THEN dms' = [dms EXCEPT !.positive_dm = Append(@, high_diff),
                                   !.negative_dm = Append(@, 0),
                                   !.i = @ + 1]
           ELSE IF DmDominates(low_diff, high_diff)
           THEN dms' = [dms EXCEPT !.negative_dm = Append(@, low_diff),
                                   !.positive_dm = Append(@, 0),
                                   !.i = @ + 1]
           ELSE dms' = [dms EXCEPT !.positive_dm = Append(@, 0),
                                   !.negative_dm = Append(@, 0),
                                   !.i = @ + 1]
    /\ UNCHANGED <<bd, pk, sar, st, bk, vs, gf>>

\* other_indicators::bulk::true_range, one value per bar: the largest of
\* high - low, |high - close| and |low - close|
true_range(close, high, low) ==
    [k \in 1..Len(high) |->
        LET a == high[k] - low[k]
            b == Abs(high[k] - close[k])
            c == Abs(low[k] - close[k])
        IN  IF a >= b /\ a >= c THEN a ELSE IF b >= c THEN b ELSE c]

\* &close[1..]
Tail1(v) == SubSeq(v, 2, Len(v))

\* tr[i - period..i].iter().sum() for integer-valued tr
WindowSum(v, i, period) == ISum(v, i) - ISum(v, i - period)

\* positive_di / negative_di: (dm_sum / tr_sum) * 100.0 for i in period..length
DmsDi(dm, tr) ==
    [k \in 1..(Len(dms.high) - dms.period) |->
        LET i == dms.period + k - 1
        IN  RMul(RDiv(R(WindowSum(dm, i, dms.period)), R(WindowSum(tr, i, dms.period))),
                 R(100))]

\* dx: (|p - n| / (p + n)) * 100.0
DmsDx(positive_di, negative_di) ==
    [k \in 1..Len(positive_di) |->
        LET di_diff == RAbs(RSub(positive_di[k], negative_di[k]))
            di_sum == RAdd(positive_di[k], negative_di[k])
        IN  RMul(RDiv(di_diff, di_sum), R(100))]

DmsAdxPanics(dx) ==
    IF dms.constant_model_type = "SimpleMovingMedian"
    THEN bulk_median_panics(dx, dms.period)
    ELSE bulk_mode_panics(dx, dms.period)

DmsAdx(dx) ==
    IF dms.constant_model_type = "SimpleMovingMedian"
    THEN bulk_median(dx, dms.period)
    ELSE bulk_mode(dx, dms.period)

\* for i in period..=adx.len() { adxr.push((adx[i - period] + adx[i - 1]) / 2.0) }
DmsAdxr(adx) ==
    [k \in 1..(Len(adx) - dms.period + 1) |->
        RDiv(RAdd(adx[k], adx[k + dms.period - 1]), R(2))]

\* the tuples (positive_di, negative_di, adx, adxr) of the result
DmsTuples(positive_di, negative_di, adx, adxr) ==
    [k \in 1..Len(adxr) |->
        <<positive_di[k + 2 * dms.period - 2], negative_di[k + 2 * dms.period - 2],
          adx[k + dms.period - 1], adxr[k]>>]

\* after the loop: true range, DI, DX, ADX, ADXR and the result
DmsFinish ==
    /\ dms.status = "running"
    /\ dms.i = Len(dms.high)
    /\ LET tr == true_range(Tail1(dms.close), Tail1(dms.high), Tail1(dms.low))
           positive_di == DmsDi(dms.positive_dm, tr)
           negative_di == DmsDi(dms.negative_dm, tr)
           dx == DmsDx(positive_di, negative_di)
       IN  IF DmsAdxPanics(dx)
           THEN dms' = [dms EXCEPT !.status = "panicked", !.panic = "smoothing"]
           ELSE LET adx == DmsAdx(dx)
                    adxr == DmsAdxr(adx)
                IN  dms' = [dms EXCEPT
                              !.status = "returned",
                              !.directional_movement_system =
                                  DmsTuples(positive_di, negative_di, adx, adxr)]
    /\ UNCHANGED <<bd, pk, sar, st, bk, vs, gf>>

\* high, low and close of the same bars, or one of them a bar short
DmsSeries ==
    LET series == SeqsUpTo(DmsBars, MaxDmsLen)
        col(b, c) == [k \in 1..Len(b) |-> b[k][c]]
        short == SeqsUpTo(DmsBars, 2) \ {<<>>}
    IN  {<<col(b, 1), col(b, 2), col(b, 3)>> : b \in series}
        \cup {<<Pop(col(b, 1)), col(b, 2), col(b, 3)>> : b \in short}
        \cup {<<col(b, 1), Pop(col(b, 2)), col(b, 3)>> : b \in short}
        \cup {<<col(b, 1), col(b, 2), Pop(col(b, 3))>> : b \in short}

DmsInit ==
    /\ dms \in {DmsArgs(v[1], v[2], v[3], period, model) :
                  v \in DmsSeries, period \in 0..MaxDmsPeriod, model \in DmsModels}
    /\ bd = Idle
    /\ pk = Idle
    /\ sar = Idle
    /\ st = Idle
    /\ bk = Idle
    /\ vs = Idle
    /\ gf = Idle

DmsNext ==
    \/ DmsPanicLength
    \/ DmsPanicEmpty
    \/ DmsPanicPeriod
    \/ DmsStart
    \/ DmsBar
    \/ DmsFinish

DmsSpec == DmsInit /\ [][DmsNext]_vars

---------------------------------------------------------------------------
(* volatility_indicators.rs: bulk::volatility_system, its input checks *)

\* validation.rs: Err(MismatchedLength) when a slice differs in length from
\* the first one
assert_same_len(slices) ==
    IF slices = <<>> THEN "Ok"
    ELSE IF \E k \in 1..Len(slices) : Len(slices[k]) # Len(slices[1]) THEN "Err"
    ELSE "Ok"

VsArgs(highs, lows, close, period) ==
    [status |-> "called", highs |-> highs, lows |-> lows, close |-> close,
     period |-> period, error |-> "none", typical_price |-> <<>>]

\* assert_same_len(&[("close", close), ("highs", highs), ("lows", lows)])?
VsErrLength ==
    /\ vs.status = "called"
    /\ assert_same_len(<<vs.close, vs.highs, vs.lows>>) = "Err"
    /\ vs' = [vs EXCEPT !.status = "err", !.error = "MismatchedLength"]
    /\ UNCHANGED <<bd, pk, sar, dms, st, bk, gf>>

\* assert_non_empty("close", close)?
VsErrEmpty ==
    /\ vs.status = "called"
    /\ assert_same_len(<<vs.close, vs.highs, vs.lows>>) = "Ok"
    /\ assert_non_empty(vs.close) = "Err"
    /\ vs' = [vs EXCEPT !.status = "err", !.error = "EmptyData"]
    /\ UNCHANGED <<bd, pk, sar, dms, st, bk, gf>>

\* assert_period(period, length)?
VsErrPeriod ==
    /\ vs.status = "called"
    /\ assert_same_len(<<vs.close, vs.highs, vs.lows>>) = "Ok"
    /\ assert_non_empty(vs.close) = "Ok"
    /\ assert_period(vs.period, Len(vs.close)) = "Err"
    /\ vs' = [vs EXCEPT !.status = "err", !.error = "InvalidPeriod"]
    /\ UNCHANGED <<bd, pk, sar, dms, st, bk, gf>>

\* the checks passed: typical_price is computed; what follows
\* works on the average true range, which these sources do not contain
VsChecked ==
    /\ vs.status = "called"
    /\ assert_same_len(<<vs.close, vs.highs, vs.lows>>) = "Ok"
    /\ assert_non_empty(vs.close) = "Ok"
    /\ assert_period(vs.period, Len(vs.close)) = "Ok"
    /\ vs' = [vs EXCEPT
                !.status = "checked",
                !.typical_price =
                    [k \in 1..Len(vs.close) |->
                        RDiv(R(vs.highs[k] + vs.lows[k] + vs.close[k]), R(3))]]
    /\ UNCHANGED <<bd, pk, sar, dms, st, bk, gf>>

\* highs, lows and close of the same bars, or one of them a bar short
VsSeries ==
    LET series == SeqsUpTo(DmsBars, MaxVsLen)
        col(b, c) == [k \in 1..Len(b) |-> b[k][c]]
        short == SeqsUpTo(DmsBars, 2) \ {<<>>}
    IN  {<<col(b, 1), col(b, 2), col(b, 3)>> : b \in series}
        \cup {<<Pop(col(b, 1)), col(b, 2), col(b, 3)>> : b \in short}
        \cup {<<col(b, 1), Pop(col(b, 2)), col(b, 3)>> : b \in short}
        \cup {<<col(b, 1), col(b, 2), Pop(col(b, 3))>> : b \in short}

VsInit ==
    /\ vs \in {VsArgs(v[1], v[2], v[3], period) :
                 v \in VsSeries, period \in 0..(MaxVsLen + 1)}
    /\ bd = Idle
    /\ pk = Idle
    /\ sar = Idle
    /\ dms = Idle
    /\ st = Idle
    /\ bk = Idle
    /\ gf = Idle

VsNext ==
    \/ VsErrLength
    \/ VsErrEmpty
    \/ VsErrPeriod
    \/ VsChecked

VsSpec == VsInit /\ [][VsNext]_vars

---------------------------------------------------------------------------
(* chart_trends.rs: goodness_of_fit as a call *)

\* the points (price, index) of prices placed at the indices from..
IndexedFrom(prices, from) == [k \in 1..Len(prices) |-> <<prices[k], from + k - 1>>]

\* (slope, intercept) given as the trend: the OLS fit of the points when it
\* exists, and a few fixed lines
GfTrends(indexed_points) ==
    (IF Len(indexed_points) >= 2 THEN {get_trend_line(indexed_points)} ELSE {})
    \cup {<<R(1), R(0)>>, <<R(-1), R(3)>>, <<R(0), R(1)>>, <<Rat(1, 2), R(1)>>}

GfArgs(indexed_points, trend) ==
    [status |-> "called", indexed_points |-> indexed_points, trend |-> trend,
     adjusted_r_squared |-> R(0), rmse_sq |-> R(0), durbin_watson |-> R(0)]

\* goodness_of_fit(indexed_points, trend); rmse is kept as its square
GfCall ==
    /\ gf.status = "called"
    /\ LET fit == goodness_of_fit(gf.indexed_points, gf.trend)
       IN  gf' = [gf EXCEPT !.status = "returned",
                            !.adjusted_r_squared = fit[1],
                            !.rmse_sq = fit[2],
                            !.durbin_watson = fit[3]]
    /\ UNCHANGED <<bd, pk, sar, dms, st, bk, vs>>

GfInit ==
    /\ \E prices \in SeqsUpTo(0..MaxGfPrice, MaxGfLen), from \in 0..1 :
           \E trend \in GfTrends(IndexedFrom(prices, from)) :
               gf = GfArgs(IndexedFrom(prices, from), trend)
    /\ bd = Idle
    /\ pk = Idle
    /\ sar = Idle
    /\ dms = Idle
    /\ st = Idle
    /\ bk = Idle
    /\ vs = Idle

GfNext == GfCall

GfSpec == GfInit /\ [][GfNext]_vars

---------------------------------------------------------------------------
(* Properties of break_down_trends, checked under TrendsSpec *)

BdReturned == bd.status = "returned"

RECURSIVE SpanSum(_)
SpanSum(trends) ==
    IF trends = <<>> THEN 0
    ELSE SpanSum(Pop(trends)) + (Last(trends)[2] - Last(trends)[1])

\* C1: for a non-empty series the last returned segment ends at
\* len(prices) - 1 and the spans end_index - start_index add up to
\* len(prices) - 1.
C1_SegmentsCoverSeries ==
    BdReturned =>
        /\ Last(bd.trends)[2] = Len(bd.prices) - 1
        /\ SpanSum(bd.trends) = Len(bd.prices) - 1

\* C2: for a non-empty series at least one segment is returned, the first
\* starts at 0, every segment has start_index < end_index, and each segment
\* starts where the one before it ends.
C2_SegmentsContiguous ==
    BdReturned =>
        /\ Len(bd.trends) >= 1
        /\ bd.trends[1][1] = 0
        /\ \A k \in 1..Len(bd.trends) : bd.trends[k][1] < bd.trends[k][2]
        /\ \A k \in 1..(Len(bd.trends) - 1) : bd.trends[k][2] = bd.trends[k + 1][1]

\* a result of three segments or more
C2_Witness == BdReturned /\ Len(bd.trends) >= 3

\* C3: for every returned segment (start, end, slope, intercept) whose
\* end_index lies in the series, the OLS fit of the points (prices[i], i),
\* i = start..end, is (slope, intercept).
C3_SegmentIsOlsFit ==
    BdReturned =>
        \A k \in 1..Len(bd.trends) :
            bd.trends[k][2] < Len(bd.prices) =>
                get_trend_line(PointsOf(bd.prices, bd.trends[k][1], bd.trends[k][2]))
                    = <<bd.trends[k][3], bd.trends[k][4]>>

\* C8: break_down_trends panics on an empty series before any segment exists,
\* and a call on a non-empty series never panics; no fit of a run is NaN.
C8_PanicsOnlyOnEmpty ==
    /\ bd.status = "panicked" => bd.prices = <<>> /\ bd.trends = <<>>
    /\ bd.prices = <<>> => bd.status \in {"called", "panicked"}
    /\ ~IsNaN(bd.current_slope) /\ ~IsNaN(bd.current_intercept)

C8_Witness == bd.status = "panicked"

---------------------------------------------------------------------------
(* Properties of peaks and valleys, checked under PeaksSpec *)

PkReturned == pk.status = "returned"

PkValidPeriod == 1 <= pk.period /\ pk.period <= Len(pk.prices)

\* C4: the indices of the list built by peaks / valleys are strictly
\* increasing, so no (value, index) pair occurs twice.
C4_IndicesStrictlyIncreasing ==
    \A j, k \in 1..Len(pk.peaks) : j < k => pk.peaks[j][2] < pk.peaks[k][2]

\* a returned list of two extrema found with windows of two prices or more
\* and a closest_neighbor of one or more
C4_Witness ==
    /\ PkReturned
    /\ pk.period >= 2
    /\ pk.closest_neighbor >= 1
    /\ Len(pk.peaks) >= 2
    /\ pk.peaks[1][2] # 0

\* C5: any two entries of the result of peaks / valleys have indices that
\* differ by more than closest_neighbor.
C5_MinimumDistance ==
    PkReturned =>
        \A j, k \in 1..Len(pk.peaks) :
            j < k => pk.peaks[k][2] - pk.peaks[j][2] > pk.closest_neighbor

\* v is the extremum of prices over lo..hi (0-based) and at is the largest
\* index of lo..hi holding it
RightmostExtremum(v, at, lo, hi) ==
    /\ at \in lo..hi
    /\ At(pk.prices, at) = v
    /\ \A j \in lo..hi :
           IF pk.fn = "peaks" THEN At(pk.prices, j) <= v ELSE At(pk.prices, j) >= v
    /\ \A j \in (at + 1)..hi : At(pk.prices, j) # v

\* C6: the candidate of every window is the rightmost position of the window
\* extremum, len - period + 1 windows are examined, and with period = len the
\* result is the single pair (extremum, largest index holding it).
C6_RightmostCandidatePerWindow ==
    /\ pk.status \in {"running", "returned"} /\ pk.i >= 1 =>
           RightmostExtremum(pk.peak, pk.idx, pk.i - 1, pk.i - 1 + pk.period - 1)
    /\ PkReturned => pk.i = Len(pk.prices) - pk.period + 1
    /\ PkReturned /\ pk.period = Len(pk.prices) =>
           /\ Len(pk.peaks) = 1
           /\ RightmostExtremum(pk.peaks[1][1], pk.peaks[1][2], 0, Len(pk.prices) - 1)

\* one window over the whole series whose extremum occurs twice
C6_Witness ==
    /\ PkReturned
    /\ pk.period = Len(pk.prices)
    /\ \E j \in 1..Len(pk.prices) : j - 1 < pk.idx /\ pk.prices[j] = pk.peak

\* C7: peaks / valleys panic, with no result, when period is 0 or above
\* prices.len(), and return normally only for 1 <= period <= prices.len():
\* a call with an invalid period builds nothing and its only step is a panic,
\* a call with a valid period never panics.
C7_InvalidPeriodPanics ==
    /\ PkReturned => PkValidPeriod
    /\ pk.status = "panicked" => ~PkValidPeriod
    /\ ~PkValidPeriod /\ pk.status # "idle" => pk.peaks = <<>> /\ pk.i = 0
    /\ ~PkValidPeriod /\ pk.status = "running" =>
           /\ ENABLED (PkPanicSlice \/ PkPanicUnwrap)
           /\ ~ENABLED (PkFirst \/ PkAbsorb \/ PkReplace \/ PkEqual \/ PkBeyond \/ PkReturn)

\* a panic for period 0 on a non-empty series
C7_Witness == pk.status = "panicked" /\ pk.period = 0 /\ pk.prices # <<>>

---------------------------------------------------------------------------
(* Properties of parabolic_time_price_system, checked under SarSpec *)

\* C9: with acceleration_factor_start <= acceleration_factor_max and a
\* positive step, the acceleration factor used for a bar never exceeds
\* acceleration_factor_max.
C9_FactorCappedAtMax ==
    sar.status \in {"running", "returned"} =>
        RLe(sar.acceleration_factor, sar.acceleration_factor_max)

\* C10: on a bar where the position flips the acceleration factor is
\* acceleration_factor_start and position_start becomes the index of that
\* bar; on a bar without a flip position_start keeps its value.
C10_FlipResetsFactorAndStart ==
    [][sar.status = "running" /\ sar'.status = "running" =>
         IF sar'.position # sar.position
         THEN /\ sar'.acceleration_factor = sar.acceleration_factor_start
              /\ sar'.position_start = sar.i
         ELSE sar'.position_start = sar.position_start]_vars

\* bar 1 set a new extreme without a flip and raised the factor, bar 2 flipped
C10_Witness ==
    /\ sar.status = "running"
    /\ sar.i = 3
    /\ sar.position_start = 2
    /\ sar.position # sar.start_position
    /\ sar.acceleration_factor_start # sar.acceleration_factor_max
    /\ IF sar.start_position = "Long"
       THEN At(sar.highs, 1) > At(sar.highs, 0)
       ELSE At(sar.lows, 1) < At(sar.lows, 0)

\* C11: parabolic_time_price_system panics, with no SAR value, when highs or
\* lows is empty or their lengths differ; for non-empty series of one length
\* it never panics and returns one SAR value per bar.
C11_SarPanicsOnBadSeries ==
    /\ sar.status = "panicked" => (SarIsEmpty \/ SarLengthsDiffer) /\ sar.sars = <<>>
    /\ (SarIsEmpty \/ SarLengthsDiffer) /\ sar.status # "idle" =>
           sar.status \in {"called", "panicked"}
    /\ sar.status = "running" => Len(sar.sars) = sar.i /\ sar.i <= Len(sar.highs)
    /\ sar.status = "returned" =>
           /\ Len(sar.sars) = Len(sar.highs)
           /\ Len(sar.sars) = Len(sar.lows)
           /\ sar.sars # <<>>

\* a panic on two lows for one high, no series empty
C11_Witness ==
    /\ sar.status = "panicked"
    /\ ~SarIsEmpty
    /\ Len(sar.highs) < Len(sar.lows)

---------------------------------------------------------------------------
(* Properties of directional_movement_system, checked under DmsSpec *)

\* the inputs the claim names: lengths not all equal, no bar, len < 3 * period
DmsBadInput ==
    \/ Len(dms.high) # Len(dms.low)
    \/ Len(dms.high) # Len(dms.close)
    \/ dms.high = <<>>
    \/ Len(dms.high) < 3 * dms.period

\* C12: directional_movement_system panics in its input checks, before any
\* directional movement is computed, when high, low and close differ in
\* length, when the input is empty or when len < 3 * period, and only then;
\* an input with len = 3 * period passes the checks and every bar is scanned.
C12_DmsPanicsOnBadInput ==
    /\ DmsBadInput /\ dms.status # "idle" =>
           /\ dms.status \in {"called", "panicked"}
           /\ dms.positive_dm = <<>> /\ dms.negative_dm = <<>>
           /\ dms.directional_movement_system = <<>>
    /\ dms.status = "panicked" /\ dms.panic \in {"length", "empty", "period"} =>
           DmsBadInput
    /\ dms.status = "panicked" /\ DmsBadInput =>
           dms.panic \in {"length", "empty", "period"}
    /\ dms.status \in {"returned", "panicked"} /\ ~DmsBadInput =>
           Len(dms.positive_dm) = Len(dms.high) - 1
    /\ dms.status = "returned" =>
           Len(dms.directional_movement_system) = Len(dms.high) - 3 * dms.period + 2

\* a result for six bars and period 2
C12_Witness ==
    /\ dms.status = "returned"
    /\ dms.period = 2
    /\ Len(dms.high) = 3 * dms.period
    /\ Len(dms.directional_movement_system) = 2

\* C13: for every bar t >= 1, +DM is high_t - high_(t-1) when that is positive
\* and strictly above low_(t-1) - low_t, else 0; -DM is low_(t-1) - low_t when
\* that is positive and strictly above the high difference, else 0; at most
\* one of the two is non-zero, and both are 0 when the differences are equal
\* or neither is positive.
C13_DirectionalMovement ==
    /\ Len(dms.positive_dm) = Len(dms.negative_dm)
    /\ \A t \in 1..Len(dms.positive_dm) :
           LET up == At(dms.high, t) - At(dms.high, t - 1)
               down == At(dms.low, t - 1) - At(dms.low, t)
               plus == dms.positive_dm[t]
               minus == dms.negative_dm[t]
           IN  /\ plus = (IF up > 0 /\ up > down THEN up ELSE 0)
               /\ minus = (IF down > 0 /\ down > up THEN down ELSE 0)
               /\ plus = 0 \/ minus = 0
               /\ up = down \/ (up <= 0 /\ down <= 0) => plus = 0 /\ minus = 0

\* a scan that met a bar with +DM, a bar with -DM and a bar whose two
\* differences are equal and positive
C13_Witness ==
    /\ \E t \in 1..Len(dms.positive_dm) : dms.positive_dm[t] > 0
    /\ \E t \in 1..Len(dms.negative_dm) : dms.negative_dm[t] > 0
    /\ \E t \in 1..Len(dms.positive_dm) :
           /\ At(dms.high, t) - At(dms.high, t - 1) > 0
           /\ At(dms.high, t) - At(dms.high, t - 1) = At(dms.low, t - 1) - At(dms.low, t)

---------------------------------------------------------------------------
(* Properties of single::mean, single::max, single::min, checked under StSpec *)

\* C14: single::mean, single::max and single::min never return a value for an
\* empty slice.
C14_EmptySliceNeverReturns ==
    st.status = "returned" => st.prices # <<>>

---------------------------------------------------------------------------
(* Properties of bulk::mean, bulk::median, bulk::mode, checked under BkSpec *)

\* C15: bulk::mean, bulk::median and bulk::mode return no result when period
\* is 0 or above prices.len(), and return len - period + 1 values for
\* 1 <= period <= len.
C15_BulkInvalidPeriodFails ==
    bk.status = "returned" =>
        /\ 1 <= bk.period
        /\ bk.period <= Len(bk.prices)
        /\ Len(bk.result) = Len(bk.prices) - bk.period + 1

---------------------------------------------------------------------------
(* Properties of volatility_system, checked under VsSpec *)

\* the inputs the claim names
VsBadInput ==
    \/ Len(vs.close) # Len(vs.highs)
    \/ Len(vs.close) # Len(vs.lows)
    \/ vs.close = <<>>
    \/ vs.period = 0
    \/ vs.period > Len(vs.close)

\* C16: volatility_system returns an Err, without a panic and before anything
\* is computed, when close, highs and lows differ in length, when the input is
\* empty, or when period is 0 or above the length; it returns no Err from its
\* checks otherwise.
C16_VolatilitySystemErr ==
    /\ VsBadInput /\ vs.status # "called" =>
           /\ vs.status = "err"
           /\ vs.error \in {"MismatchedLength", "EmptyData", "InvalidPeriod"}
           /\ vs.typical_price = <<>>
    /\ vs.status = "err" => VsBadInput
    /\ ~VsBadInput /\ vs.status # "called" =>
           vs.status = "checked" /\ Len(vs.typical_price) = Len(vs.close)

\* an Err for a period above the length of three equal-length series
C16_Witness ==
    /\ vs.status = "err"
    /\ vs.error = "InvalidPeriod"
    /\ Len(vs.close) = 3
    /\ vs.period > Len(vs.close)

---------------------------------------------------------------------------
(* Properties of goodness_of_fit, checked under GfSpec *)

\* every point lies on the line of the trend
GfOnTheLine ==
    \A k \in 1..Len(gf.indexed_points) :
        RAdd(gf.trend[2], RMul(gf.trend[1], R(gf.indexed_points[k][2])))
            = R(gf.indexed_points[k][1])

GfNonConstant ==
    \E j, k \in 1..Len(gf.indexed_points) :
        gf.indexed_points[j][1] # gf.indexed_points[k][1]

---------------------------------------------------------------------------
(* Properties of the loop body of break_down_trends, checked under TrendsSpec *)

\* the loop is at a point with index >= 2
BdAtPoint == bd.status = "running" /\ bd.index >= 2 /\ bd.index < Len(bd.prices)

\* the statistics of the window with the point pushed, under its OLS fit
BdPointFit == goodness_of_fit(BdWindow, get_trend_line(BdWindow))

\* all three soft conditions hold for the statistics
BdSoftConditions(fit) ==
    LET c == bd.trend_break_config.t
    IN  /\ RLt(fit[1], c.soft_adj_r_squared_minimum)
        /\ RmseAbove(fit[2], c.soft_rmse_multiplier, bd.previous_rmse)
        /\ ~(RLe(c.soft_durbin_watson_min, fit[3]) /\ RLe(fit[3], c.soft_durbin_watson_max))

\* at least one hard condition holds for the statistics
BdHardConditions(fit) ==
    LET c == bd.trend_break_config.t
    IN  \/ RLt(fit[1], c.hard_adj_r_squared_minimum)
        \/ RmseAbove(fit[2], c.hard_rmse_multiplier, bd.previous_rmse)
        \/ ~(RLe(c.hard_durbin_watson_min, fit[3]) /\ RLe(fit[3], c.hard_durbin_watson_max))

\* C18: every point with index >= 2 is evaluated; it is accepted (no segment
\* is closed, no outlier recorded) exactly when neither all three soft
\* conditions nor any hard condition holds, and on acceptance previous_rmse
\* becomes the new RMSE, (slope, intercept) the new fit and end_index the
\* index of the point.
C18_AcceptIffNoBreak ==
    [][BdAtPoint =>
         LET fit == BdPointFit
             current_trend == get_trend_line(BdWindow)
             accepted == /\ bd'.trends = bd.trends
                         /\ bd'.outliers = bd.outliers
                         /\ bd'.index = bd.index + 1
         IN  /\ bd.index > bd.end_index
             /\ accepted <=> ~BdSoftConditions(fit) /\ ~BdHardConditions(fit)
             /\ accepted =>
                    /\ bd'.previous_rmse = fit[2]
                    /\ bd'.current_slope = current_trend[1]
                    /\ bd'.current_intercept = current_trend[2]
                    /\ bd'.end_index = bd.index
                    /\ bd'.indexed_points = BdWindow]_vars

\* a point at index 2 or later was accepted with a fit that is not exact,
\* under thresholds that can break
C18_Witness ==
    /\ bd.status = "running"
    /\ bd.index >= 3
    /\ bd.end_index = bd.index - 1
    /\ bd.trends = <<>> /\ bd.outliers = <<>>
    /\ ~IsFMax(bd.previous_rmse)
    /\ bd.previous_rmse # R(0)
    /\ bd.trend_break_config.t = DefaultConfig

\* C19: a break at a point while fewer than max_outliers outliers are recorded
\* drops the point from the window and records its index as one more outlier,
\* leaving previous_rmse, (slope, intercept), start_index, end_index and the
\* closed segments as they were; the number of recorded outliers never exceeds
\* max_outliers.
C19_OutlierSkipsPoint ==
    /\ [](bd.status = "running" => Len(bd.outliers) <= bd.trend_break_config.max_outliers)
    /\ [][/\ BdAtPoint
          /\ BdSoftConditions(BdPointFit) \/ BdHardConditions(BdPointFit)
          /\ Len(bd.outliers) < bd.trend_break_config.max_outliers
          => /\ bd'.indexed_points = bd.indexed_points
             /\ \A p \in 1..Len(bd'.indexed_points) : bd'.indexed_points[p][2] # bd.index
             /\ bd'.outliers = Append(bd.outliers, bd.index)
             /\ bd'.previous_rmse = bd.previous_rmse
             /\ bd'.current_slope = bd.current_slope
             /\ bd'.current_intercept = bd.current_intercept
             /\ bd'.start_index = bd.start_index
             /\ bd'.end_index = bd.end_index
             /\ bd'.trends = bd.trends]_vars

\* two points in a row were skipped as outliers after a point at index 2 or
\* later was accepted
C19_Witness ==
    /\ bd.status = "running"
    /\ Len(bd.outliers) = 2
    /\ bd.trend_break_config.max_outliers = 2
    /\ bd.outliers[2] = bd.index - 1
    /\ bd.end_index = bd.outliers[1] - 1
    /\ ~IsFMax(bd.previous_rmse)

\* the original points (prices[x], x) for x from first through last
BdOriginalPoints(first, last) ==
    [p \in 1..(last - first + 1) |-> <<bd.prices[first + p], first + p - 1>>]

\* C20: a break at a point when max_outliers outliers are already recorded
\* appends exactly one segment (start_index, end_index, current_slope,
\* current_intercept); the new window holds every original point from the old
\* end_index through the index of the point, skipped points included, and
\* (slope, intercept) is its OLS fit; outliers is emptied; previous_rmse is the
\* RMSE of the new window under that fit when the window has more than 2
\* points and f64::MAX otherwise.
C20_SplitClosesSegment ==
    [][/\ BdAtPoint
       /\ BdSoftConditions(BdPointFit) \/ BdHardConditions(BdPointFit)
       /\ Len(bd.outliers) = bd.trend_break_config.max_outliers
       => LET window == BdOriginalPoints(bd.end_index, bd.index)
              refit == get_trend_line(window)
          IN  /\ bd'.trends = Append(bd.trends, <<bd.start_index, bd.end_index,
                                                  bd.current_slope, bd.current_intercept>>)
              /\ bd'.indexed_points = window
              /\ bd'.current_slope = refit[1]
              /\ bd'.current_intercept = refit[2]
              /\ bd'.outliers = <<>>
              /\ bd'.previous_rmse = IF bd.index - bd.end_index + 1 > 2
                                     THEN goodness_of_fit(window, refit)[2]
                                     ELSE FMax]_vars

\* a segment was just closed after one point had been skipped: the new window
\* has three points, the skipped one among them, and previous_rmse was
\* recomputed from it
C20_Witness ==
    /\ bd.status = "running"
    /\ bd.trend_break_config.max_outliers = 1
    /\ bd.trends # <<>>
    /\ bd.outliers = <<>>
    /\ bd.end_index = bd.index - 1
    /\ bd.start_index = bd.end_index - 2
    /\ Last(bd.trends)[2] = bd.start_index
    /\ Len(bd.indexed_points) = 3
    /\ ~IsFMax(bd.previous_rmse)

\* C21: max_outliers counts break candidates in a row: with max_outliers >= 1
\* a break candidate at a point whose predecessor was accepted (end_index is
\* the index before) is skipped as an outlier and closes no segment.
C21_AcceptRestartsOutlierCount ==
    [][/\ BdAtPoint
       /\ BdSoftConditions(BdPointFit) \/ BdHardConditions(BdPointFit)
       /\ bd.trend_break_config.max_outliers >= 1
       /\ bd.end_index = bd.index - 1
       => /\ bd'.trends = bd.trends
          /\ Len(bd'.outliers) <= 1]_vars

\* C22: in peaks and valleys only the candidate of the first window is pushed
\* unconditionally: a candidate of a later window whose index is within
\* closest_neighbor of the last accepted index leaves the output as it is or
\* replaces its last entry, and never adds an entry.
C22_NearCandidateNeverAppended ==
    [][/\ PkCandidate
       /\ pk.i >= 1
       /\ PkIdx <= pk.last_peak_idx + pk.closest_neighbor
       => \/ pk'.peaks = pk.peaks
          \/ pk'.peaks = Append(Pop(pk.peaks), <<PkPeak, PkIdx>>)]_vars

---------------------------------------------------------------------------
(* Properties of the loop body of bulk::parabolic_time_price_system, checked
   under SarSpec *)

\* the least and the greatest of a non-empty set of prices
LowestOf(S) == CHOOSE x \in S : \A y \in S : x <= y

HighestOf(S) == CHOOSE x \in S : \A y \in S : y <= x

\* the lows and the highs of the bars position_start .. i - 1
SarLowsSinceStart == {sar.lows[k] : k \in (sar.position_start + 1)..sar.i}

SarHighsSinceStart == {sar.highs[k] : k \in (sar.position_start + 1)..sar.i}

\* the loop is at bar i >= 1
SarAtBar == sar.status = "running" /\ sar.i >= 1 /\ sar.i < Len(sar.highs)

\* C23: on bar i >= 1 the position changes exactly when it is Short and
\* highs[i] > sars[i-1] (to Long) or Long and lows[i] < sars[i-1] (to Short);
\* the SAR pushed on a flip starts from the pivot, the lowest low (to Long) or
\* the highest high (to Short) of the bars position_start .. i - 1.
C23_FlipRule ==
    [][SarAtBar =>
         LET high == sar.highs[sar.i + 1]
             low == sar.lows[sar.i + 1]
             previous_sar == sar.sars[sar.i]
             start == sar.acceleration_factor_start
             toLong == sar.position = "Short" /\ R(high) # previous_sar
                                             /\ RLe(previous_sar, R(high))
             toShort == sar.position = "Long" /\ R(low) # previous_sar
                                             /\ RLe(R(low), previous_sar)
             pivotLow == R(LowestOf(SarLowsSinceStart))
             pivotHigh == R(HighestOf(SarHighsSinceStart))
         IN  /\ (sar'.position # sar.position) <=> (toLong \/ toShort)
             /\ toLong =>
                  /\ sar'.position = "Long"
                  /\ Last(sar'.sars) =
                       RMin(RAdd(pivotLow, RMul(start, RSub(R(high), pivotLow))),
                            R(LowestOf({sar.lows[sar.i], low})))
             /\ toShort =>
                  /\ sar'.position = "Short"
                  /\ Last(sar'.sars) =
                       RMax(RSub(pivotHigh, RMul(start, RSub(pivotHigh, R(low)))),
                            R(HighestOf({sar.highs[sar.i], high})))]_vars

\* bar 2 flipped a Short position held since bar 0 to Long, and the pivot is
\* the low of bar 0, not of the bar before the flip
C23_Witness ==
    /\ sar.status = "running"
    /\ sar.start_position = "Short"
    /\ sar.position = "Long"
    /\ sar.position_start = 2
    /\ sar.i = 3
    /\ sar.lows[1] < sar.lows[2]

\* C24: the SAR pushed on a flip to Long takes as extreme point the highest
\* high of the bars since the last flip, position_start through i; the SAR
\* pushed on a flip to Short takes the lowest low of those bars.
C24_FlipExtremeSinceStart ==
    [][SarAtBar =>
         LET high == sar.highs[sar.i + 1]
             low == sar.lows[sar.i + 1]
             start == sar.acceleration_factor_start
             pivotLow == R(LowestOf(SarLowsSinceStart))
             pivotHigh == R(HighestOf(SarHighsSinceStart))
             extremeHigh == R(HighestOf(SarHighsSinceStart \cup {high}))
             extremeLow == R(LowestOf(SarLowsSinceStart \cup {low}))
         IN  /\ sar.position = "Short" /\ sar'.position = "Long" =>
                  Last(sar'.sars) =
                    RMin(RAdd(pivotLow, RMul(start, RSub(extremeHigh, pivotLow))),
                         R(LowestOf({sar.lows[sar.i], low})))
             /\ sar.position = "Long" /\ sar'.position = "Short" =>
                  Last(sar'.sars) =
                    RMax(RSub(pivotHigh, RMul(start, RSub(pivotHigh, extremeLow))),
                         R(HighestOf({sar.highs[sar.i], high})))]_vars

\* C25: on a bar without a flip the acceleration factor grows by exactly
\* acceleration_factor_step when the bar sets a strictly new extreme against
\* the bars position_start .. i - 1 (a lower low in Short, a higher high in
\* Long) and the factor is <= acceleration_factor_max - 0.0000001, and is
\* unchanged otherwise; on any bar it grows by one step at most and it falls
\* only on a flip, to acceleration_factor_start.
C25_FactorRatchet ==
    [][SarAtBar =>
         LET high == sar.highs[sar.i + 1]
             low == sar.lows[sar.i + 1]
             newExtreme == IF sar.position = "Short"
                           THEN low < LowestOf(SarLowsSinceStart)
                           ELSE high > HighestOf(SarHighsSinceStart)
             notPassed == RLe(sar.acceleration_factor,
                              RSub(sar.acceleration_factor_max, Rat(1, 10000000)))
             stepped == RAdd(sar.acceleration_factor, sar.acceleration_factor_step)
         IN  /\ sar'.position = sar.position =>
                  sar'.acceleration_factor =
                    IF newExtreme /\ notPassed THEN stepped ELSE sar.acceleration_factor
             /\ sar'.acceleration_factor \in {sar.acceleration_factor, stepped,
                                              sar.acceleration_factor_start}
             /\ RLt(sar'.acceleration_factor, sar.acceleration_factor) =>
                  /\ sar'.position # sar.position
                  /\ sar'.acceleration_factor = sar.acceleration_factor_start]_vars

\* a Long position held since bar 0 made a higher high on bar 1 and on bar 2:
\* the factor was stepped once, past the maximum, and then left alone
C25_Witness ==
    /\ sar.status = "running"
    /\ sar.i = 3
    /\ sar.position = "Long"
    /\ sar.position_start = 0
    /\ sar.highs[1] < sar.highs[2]
    /\ sar.highs[2] < sar.highs[3]
    /\ sar.acceleration_factor
         = RAdd(sar.acceleration_factor_start, sar.acceleration_factor_step)
    /\ RLt(sar.acceleration_factor_max, sar.acceleration_factor)

---------------------------------------------------------------------------
(* The statistics of a goodness_of_fit call recomputed term by term, checked
   under GfSpec *)

\* observed_prices[k] - trend_line[k] for the k-th point
GfResidual(k) ==
    RSub(R(gf.indexed_points[k][1]),
         RAdd(gf.trend[2], RMul(gf.trend[1], R(gf.indexed_points[k][2]))))

\* the sum of the squared residuals of the first k points
RECURSIVE GfResidualSquares(_)
GfResidualSquares(k) ==
    IF k = 0 THEN R(0)
    ELSE RAdd(GfResidualSquares(k - 1), RMul(GfResidual(k), GfResidual(k)))

\* the sum of the prices of the first k points
RECURSIVE GfPriceSum(_)
GfPriceSum(k) == IF k = 0 THEN 0 ELSE GfPriceSum(k - 1) + gf.indexed_points[k][1]

\* the sum of the squared distances to the mean of the first k points
RECURSIVE GfTotalSquares(_)
GfTotalSquares(k) ==
    IF k = 0 THEN R(0)
    ELSE LET n == Len(gf.indexed_points)
             d == RSub(R(gf.indexed_points[k][1]), Rat(GfPriceSum(n), n))
         IN  RAdd(GfTotalSquares(k - 1), RMul(d, d))

\* the raw R^2 behind the adjusted R^2 that was returned
GfRawOfResult ==
    LET n == Len(gf.indexed_points)
    IN  IF n = 2 THEN gf.adjusted_r_squared
        ELSE RSub(R(1), RMul(RSub(R(1), gf.adjusted_r_squared), Rat(n - 2, n - 1)))

\* C26: goodness_of_fit returns for every input; fewer than 2 points give
\* (0.0, 0.0, 2.0); a total sum of squares of 0 gives raw R^2 = 0; raw R^2 is
\* never negative; a residual sum of squares of 0 gives Durbin-Watson 2.0; for
\* 2 points the adjusted R^2 is the raw R^2, max(1 - SSR / TSS, 0).
C26_DegenerateFits ==
    /\ gf.status \in {"called", "returned"}
    /\ gf.status = "returned" =>
         LET n == Len(gf.indexed_points)
             ssr == GfResidualSquares(n)
             tss == GfTotalSquares(n)
         IN  /\ n < 2 => /\ gf.adjusted_r_squared = R(0)
                         /\ gf.rmse_sq = R(0)
                         /\ gf.durbin_watson = R(2)
             /\ n >= 2 =>
                  /\ tss = R(0) => GfRawOfResult = R(0)
                  /\ RLe(R(0), GfRawOfResult)
                  /\ ssr = R(0) => gf.durbin_watson = R(2)
                  /\ n = 2 /\ tss # R(0) =>
                       gf.adjusted_r_squared = RMax(RSub(R(1), RDiv(ssr, tss)), R(0))

\* two points under a line that misses them by more than their spread: the
\* raw R^2 was clamped to 0
C26_Witness ==
    /\ gf.status = "returned"
    /\ Len(gf.indexed_points) = 2
    /\ RLt(GfTotalSquares(2), GfResidualSquares(2))
    /\ GfTotalSquares(2) # R(0)
    /\ gf.adjusted_r_squared = R(0)

\* C27: the SAR of the bar processed last lies on the far side of the bar from
\* the position held after it: under Long it is <= the low of that bar and of
\* the bar before, under Short it is >= the high of that bar and of the bar
\* before.
C27_SarOutsideBar ==
    sar.status \in {"running", "returned"} =>
        LET n == Len(sar.sars)
        IN  /\ n >= 1
            /\ sar.position = "Long" =>
                 /\ RLe(sar.sars[n], R(sar.lows[n]))
                 /\ n >= 2 => RLe(sar.sars[n], R(sar.lows[n - 1]))
            /\ sar.position = "Short" =>
                 /\ RLe(R(sar.highs[n]), sar.sars[n])
                 /\ n >= 2 => RLe(R(sar.highs[n - 1]), sar.sars[n])

\* a Long position on its third bar whose SAR was held down to the low of the
\* bar before, below the low of the bar itself
C27_Witness ==
    /\ sar.status = "running"
    /\ Len(sar.sars) = 3
    /\ sar.position = "Long"
    /\ sar.position_start = 0
    /\ sar.sars[3] = R(sar.lows[2])
    /\ sar.lows[2] < sar.lows[3]
    /\ RLt(sar.sars[2], sar.sars[3])

\* C28: peaks and valleys test a candidate against the last accepted index
\* only, and a worse candidate within closest_neighbor of it moves that index
\* without touching the output; a better candidate within closest_neighbor of
\* it replaces the last entry of the output, so the entry replaced can lie
\* more than closest_neighbor before the candidate.
C28_ReplaceAgainstLastAccepted ==
    [][/\ pk.status = "running"
       /\ pk.i <= pk.last_i
       /\ pk.i + pk.period <= Len(pk.prices)
       /\ pk.period >= 1
       /\ pk.last_peak_idx # 0
       => LET window == SubSeq(pk.prices, pk.i + 1, pk.i + pk.period)
              peak == IF pk.fn = "peaks"
                      THEN HighestOf({window[k] : k \in 1..pk.period})
                      ELSE LowestOf({window[k] : k \in 1..pk.period})
              idx == pk.i + HighestOf({k \in 1..pk.period : window[k] = peak}) - 1
              worse == IF pk.fn = "peaks" THEN peak < pk.last_peak
                                          ELSE peak > pk.last_peak
              better == IF pk.fn = "peaks" THEN peak > pk.last_peak
                                           ELSE peak < pk.last_peak
          IN  idx <= pk.last_peak_idx + pk.closest_neighbor =>
                /\ worse => /\ pk'.peaks = pk.peaks
                            /\ pk'.last_peak = pk.last_peak
                            /\ pk'.last_peak_idx = idx
                /\ better => /\ pk'.peaks = Append(Pop(pk.peaks), <<peak, idx>>)
                             /\ pk'.last_peak = peak
                             /\ pk'.last_peak_idx = idx]_vars

\* peaks with period 1 and closest_neighbor 1 over four prices: (prices[1], 1)
\* was emitted, the lower prices[2] was absorbed, and prices[3] at index 3
\* replaced the entry of index 1, two indices before it
C28_Witness ==
    /\ pk.status = "running"
    /\ pk.fn = "peaks"
    /\ pk.period = 1
    /\ pk.closest_neighbor = 1
    /\ Len(pk.prices) = 4
    /\ pk.i = 4
    /\ pk.prices[3] < pk.prices[2]
    /\ pk.peaks = <<<<pk.prices[1], 0>>, <<pk.prices[4], 3>>>>

\* C29: for 1 or 2 prices break_down_trends fits nothing (slope, intercept,
\* previous_rmse, outliers and trends keep their initial values during the
\* loop) and returns the one segment (0, 1, 0.0, 0.0); for any series a first
\* segment closed with end index 1, before any point was accepted, has slope
\* 0.0 and intercept 0.0.
C29_ShortSeriesPlaceholder ==
    /\ bd.status = "running" /\ Len(bd.prices) <= 2 =>
         /\ bd.current_slope = R(0)
         /\ bd.current_intercept = R(0)
         /\ IsFMax(bd.previous_rmse)
         /\ bd.outliers = <<>>
         /\ bd.trends = <<>>
    /\ bd.status = "returned" /\ Len(bd.prices) <= 2 =>
         bd.trends = <<<<0, 1, R(0), R(0)>>>>
    /\ bd.status \in {"running", "returned"} /\ bd.trends # <<>> /\ bd.trends[1][2] = 1 =>
         bd.trends[1] = <<0, 1, R(0), R(0)>>

\* two different prices returned as the segment (0, 1, 0.0, 0.0)
C29_Witness ==
    /\ bd.status = "returned"
    /\ Len(bd.prices) = 2
    /\ bd.prices[1] # bd.prices[2]
    /\ bd.trends = <<<<0, 1, R(0), R(0)>>>>

\* all prices of the series are equal
BdFlatPrices == \A j, k \in 1..Len(bd.prices) : bd.prices[j] = bd.prices[k]

\* C30: over a flat series every evaluated window has n >= 3 points and gets
\* adjusted R^2 = 1 - (n - 1) / (n - 2) < 0 (raw R^2 = 0); with
\* hard_adj_r_squared_minimum >= 0 the point is then skipped as an outlier or
\* closes a segment, and is never accepted.
C30_FlatSeriesNeverAccepts ==
    [][/\ BdAtPoint
       /\ BdFlatPrices
       /\ RLe(R(0), bd.trend_break_config.t.hard_adj_r_squared_minimum)
       => LET n == Len(bd.indexed_points) + 1
              adjusted_r_squared == BdPointFit[1]
          IN  /\ n >= 3
              /\ adjusted_r_squared = RSub(R(1), Rat(n - 1, n - 2))
              /\ RLt(adjusted_r_squared, R(0))
              /\ \/ /\ bd'.outliers = Append(bd.outliers, bd.index)
                    /\ bd'.trends = bd.trends
                    /\ bd'.end_index = bd.end_index
                 \/ /\ Len(bd'.trends) = Len(bd.trends) + 1
                    /\ bd'.outliers = <<>>]_vars

\* a flat series of five prices under the default thresholds with
\* max_outliers 1: index 2 was skipped, index 3 closed the first segment and
\* index 4 was skipped in a window of four points
C30_Witness ==
    /\ bd.status = "running"
    /\ BdFlatPrices
    /\ Len(bd.prices) = 5
    /\ bd.index = 5
    /\ bd.trend_break_config.t = DefaultConfig
    /\ bd.trend_break_config.max_outliers = 1
    /\ Len(bd.trends) = 1
    /\ bd.outliers = <<4>>
    /\ Len(bd.indexed_points) = 3

=============================================================================
